---- MODULE Spec2Model ----
(***************************************************************************)
(* Insurance_Terms_AutoGen: tag expansion (TagProcessor), reference lookup *)
(* (CSVLoader.find_참조문구) and the per-coverage assembly loop             *)
(* (PrintDambo.execute).                                                   *)
(*                                                                         *)
(* Names are the source's names romanised, since identifiers and strings   *)
(* are ASCII here:                                                         *)
(*   면책 myeonchaek      감액 gamaek          감액있음 gamaek_isseum       *)
(*   비갱신 bigaengsin    갱신 gaengsin        감액한번 gamaek_hanbeon      *)
(*   감액두번 gamaek_dubeon  진단확정 jindan   자동갱신형 jadong            *)
(*   독립특약 dokrip      단체 danche          연장형 yeonjang              *)
(*   부모 bumo            예약가입 yeyak       예약가입연령 yeyak_yeonryeong*)
(*   세부보장 sebu        감액기간 gamaek_gigan   지급률 jigeupryul         *)
(*   보통약관 해약환급금 botong   참조 chamjo   적용구분 jeogyong           *)
(*   담보속성 sokseong    약관문구 mungu       코드명 kodeumyeong           *)
(*   특별약관명 teukyak_myeong   대표담보코드 daepyo                        *)
(*                                                                         *)
(* A text is a sequence of pieces.  A piece is one character (t = "ch") or *)
(* one tag literal; a tag literal may also be cut in two pieces (f = "l"   *)
(* holds "{" and the first letter, f = "r" the rest), which match the tag  *)
(* grammar only when they stand next to each other.                        *)
(***************************************************************************)
EXTENDS Integers, Sequences, FiniteSets, TLC

\* ------------------------------------------------------------------ bounds
MaxLen == 5
MaxRows == 2
MaxCoverages == 3
MaxClicks == 3
MaxDays == 800

\* ------------------------------------------------------------------ pieces
NoN == -1

Ch(c) == [f |-> "w", t |-> "ch", name |-> c, n |-> 0, m |-> 0, k |-> 0]
\* {NAME N-K}
OC(name, n, k) == [f |-> "w", t |-> "oc", name |-> name, n |-> n, m |-> 0, k |-> k]
\* {NAME} (n = NoN) and {NAME N}
Sub(name, n) == [f |-> "w", t |-> "sub", name |-> name, n |-> n, m |-> 0, k |-> 0]
\* {감액2-N}
Gamaek2(n) == [f |-> "w", t |-> "g2", name |-> "gamaek2", n |-> n, m |-> 0, k |-> 0]
\* {감액기간N-K}
Gigan(n, k) == [f |-> "w", t |-> "gigan", name |-> "gamaek_gigan", n |-> n, m |-> 0, k |-> k]
\* {지급률N-M-K}
Jigeup(n, m, k) == [f |-> "w", t |-> "jigeup", name |-> "jigeupryul", n |-> n, m |-> m, k |-> k]
\* {보통약관 해약환급금}
Botong == [f |-> "w", t |-> "botong", name |-> "botong", n |-> 0, m |-> 0, k |-> 0]

LeftOf(tag) == [tag EXCEPT !.f = "l"]
RightOf(tag) == [tag EXCEPT !.f = "r"]
WholeOf(p) == [p EXCEPT !.f = "w"]

IsChar(p) == p.f = "w" /\ p.t = "ch"
IsDigit(p) == IsChar(p) /\ p.name \in {"0", "1", "2", "3", "4", "5", "6", "7", "8", "9"}

\* Length in pieces of the tag literal that starts at position i (0: none).
OccLen(text, i) ==
    IF i < 1 \/ i > Len(text) THEN 0
    ELSE IF text[i].f = "w" /\ text[i].t # "ch" THEN 1
    ELSE IF text[i].f = "l" /\ i < Len(text) /\ text[i + 1] = RightOf(text[i]) THEN 2
    ELSE 0

OccTag(text, i) == WholeOf(text[i])

\* str.__contains__('{'): a left half holds the brace, a right half does not.
HasBrace(text) == \E i \in 1..Len(text) : text[i].t # "ch" /\ text[i].f # "r"

\* text[a+1 .. b], Python's text[a:b]
Slice(text, a, b) == IF b <= a THEN <<>> ELSE SubSeq(text, a + 1, b)

RECURSIVE SortedSeq(_)
SortedSeq(S) ==
    IF S = {} THEN <<>>
    ELSE LET x == CHOOSE y \in S : \A z \in S : y <= z
         IN <<x>> \o SortedSeq(S \ {x})

\* Start positions (ascending) of the tag literals of `text` that are in Tags.
FindAll(text, Tags) ==
    SortedSeq({i \in 1..Len(text) : OccLen(text, i) > 0 /\ OccTag(text, i) \in Tags})

\* ------------------------------------------------------------ TagContext
\* dataclass TagContext with its defaults.
TagContext ==
    [myeonchaek |-> 0, gamaek |-> 0, jindan |-> 0, bumo |-> 0, yeyak_yeonryeong |-> 0,
     yeonjang |-> 0, danche |-> 0, jadong |-> 0, dokrip |-> 0, bigaengsin |-> 0,
     gamaek_hanbeon |-> TRUE, gamaek_dubeon |-> FALSE,
     gamaek_gigan_list |-> <<>>, daepyo_list |-> <<>>, jigeupryul_data |-> <<>>,
     sebu_list |-> <<>>]

\* ------------------------------------------- Pass 1, string: output control
\* self.output_control_patterns, in order: the tag name, the attribute it
\* tests, and whether N is the literal 0 of the pattern (one capture group).
output_control_patterns ==
    << [name |-> "myeonchaek", attr |-> "myeonchaek", zero |-> TRUE],
       [name |-> "gamaek_isseum", attr |-> "gamaek", zero |-> FALSE],
       [name |-> "bigaengsin", attr |-> "bigaengsin", zero |-> FALSE],
       [name |-> "gaengsin", attr |-> "gaengsin", zero |-> FALSE],
       [name |-> "gamaek_hanbeon", attr |-> "gamaek_hanbeon", zero |-> FALSE],
       [name |-> "gamaek_dubeon", attr |-> "gamaek_dubeon", zero |-> FALSE],
       [name |-> "jindan", attr |-> "jindan", zero |-> FALSE],
       [name |-> "jadong", attr |-> "jadong", zero |-> FALSE],
       [name |-> "dokrip", attr |-> "dokrip", zero |-> TRUE] >>

\* re.compile(pattern) against one tag literal: \{NAME(\d+)-(\d)\} or \{NAME0-(\d)\}
OCMatches(pat, tag) ==
    /\ tag.t = "oc"
    /\ tag.name = pat.name
    /\ tag.n >= 0
    /\ (pat.zero => tag.n = 0)
    /\ tag.k \in 0..9

get_attribute_value(attr_name, n_value, c) ==
    CASE attr_name = "myeonchaek" -> c.myeonchaek > 0
      [] attr_name = "gamaek" -> c.gamaek > 0
      [] attr_name = "jindan" -> c.jindan > 0
      [] attr_name = "bumo" -> c.bumo > 0
      [] attr_name = "yeonjang" -> c.yeonjang > 0
      [] attr_name = "danche" -> c.danche > 0
      [] attr_name = "jadong" -> c.jadong > 0
      [] attr_name = "dokrip" -> c.dokrip > 0
      [] attr_name = "bigaengsin" -> c.bigaengsin > 0 \/ c.jadong = 0
      [] attr_name = "gaengsin" -> c.jadong > 0
      [] attr_name = "gamaek_hanbeon" -> c.gamaek_hanbeon /\ ~c.gamaek_dubeon
      [] attr_name = "gamaek_dubeon" -> c.gamaek_dubeon
      [] OTHER -> FALSE

\* "if (k1 in [1, 3] and k2 in [2, 4]) or (k1 in [2, 4] and k2 in [1, 3])"
ValidPair(k1, k2) ==
    \/ (k1 \in {1, 3} /\ k2 \in {2, 4})
    \/ (k1 \in {2, 4} /\ k2 \in {1, 3})

\* The two deletions of a pair whose markers start at p1 < p2.
DeleteTagsOnly(t, p1, p2) ==
    Slice(t, 0, p1 - 1) \o Slice(t, p1 - 1 + OccLen(t, p1), p2 - 1)
        \o Slice(t, p2 - 1 + OccLen(t, p2), Len(t))

DeleteTagsAndContent(t, p1, p2) ==
    Slice(t, 0, p1 - 1) \o Slice(t, p2 - 1 + OccLen(t, p2), Len(t))

\* The while loop of _process_single_output_tag; i is the 0-based index.
RECURSIVE process_single_loop(_, _, _, _)
process_single_loop(t, pat, c, i) ==
    LET matches == FindAll(t, {g \in {OccTag(t, j) : j \in 1..Len(t)} : OCMatches(pat, g)})
    IN  IF i >= Len(matches) - 1 THEN t
        ELSE LET p1 == matches[i + 1]
                 p2 == matches[i + 2]
                 k1 == OccTag(t, p1).k
                 k2 == OccTag(t, p2).k
                 n_value == IF pat.zero THEN 1 ELSE OccTag(t, p1).n
                 attr_value == get_attribute_value(pat.attr, n_value, c)
                 tagsOnly == IF k1 \in {1, 2} THEN attr_value ELSE ~attr_value
             IN  IF ValidPair(k1, k2)
                 THEN process_single_loop(
                          IF tagsOnly THEN DeleteTagsOnly(t, p1, p2)
                          ELSE DeleteTagsAndContent(t, p1, p2),
                          pat, c, 0)
                 ELSE process_single_loop(t, pat, c, i + 1)

process_single_output_tag(t, pat, c) == process_single_loop(t, pat, c, 0)

RECURSIVE process_output_control_from(_, _, _)
process_output_control_from(t, c, idx) ==
    IF idx > Len(output_control_patterns) THEN t
    ELSE process_output_control_from(
             process_single_output_tag(t, output_control_patterns[idx], c), c, idx + 1)

process_output_control_tags(t, c) == process_output_control_from(t, c, 1)

\* ------------------------------------------------- ReferenceLookup (참조)
\* A row of 참조.csv: 코드명 (a tag literal), 담보속성, 적용구분 ("" blank,
\* "0", "1", or "x" for a value int() rejects), 약관문구 (a text).
\* The requested 담보속성 / 적용구분 may be None.
None == "None"

\* A lookup that filters by 적용구분 before it looks for a blank one.
RECURSIVE find_chamjo_type_first(_, _, _, _, _)
find_chamjo_type_first(rows, kodeumyeong, sokseong, jeogyong, i) ==
    IF i > Len(rows) THEN <<>>
    ELSE LET row == rows[i]
         IN  IF row.kodeumyeong # kodeumyeong
             THEN find_chamjo_type_first(rows, kodeumyeong, sokseong, jeogyong, i + 1)
             ELSE IF sokseong # None /\ row.sokseong # sokseong
             THEN find_chamjo_type_first(rows, kodeumyeong, sokseong, jeogyong, i + 1)
             ELSE IF jeogyong # None /\ (row.jeogyong \notin {"0", "1"} \/ row.jeogyong # jeogyong)
             THEN find_chamjo_type_first(rows, kodeumyeong, sokseong, jeogyong, i + 1)
             ELSE IF row.jeogyong = ""
             THEN <<>>
             ELSE row.mungu

\* The loop of find_참조문구 over the index entries of 코드명, from entry i.
RECURSIVE find_chamjo_from(_, _, _, _, _)
find_chamjo_from(rows, kodeumyeong, sokseong, jeogyong, i) ==
    IF i > Len(rows) THEN <<>>
    ELSE LET row == rows[i]
         IN  IF row.kodeumyeong # kodeumyeong
             THEN find_chamjo_from(rows, kodeumyeong, sokseong, jeogyong, i + 1)
             ELSE IF sokseong # None /\ row.sokseong # sokseong
             THEN find_chamjo_from(rows, kodeumyeong, sokseong, jeogyong, i + 1)
             ELSE IF row.jeogyong = ""
             THEN <<>>
             ELSE IF jeogyong # None /\ (row.jeogyong \notin {"0", "1"} \/ row.jeogyong # jeogyong)
             THEN find_chamjo_from(rows, kodeumyeong, sokseong, jeogyong, i + 1)
             ELSE row.mungu

find_chamjomungu(rows, kodeumyeong, sokseong, jeogyong) ==
    find_chamjo_from(rows, kodeumyeong, sokseong, jeogyong, 1)

\* "return result if result else ''"
lookup_chamjo(rows, kodeumyeong, sokseong, jeogyong) ==
    LET result == find_chamjomungu(rows, kodeumyeong, sokseong, jeogyong)
    IN  IF result # <<>> THEN result ELSE <<>>

\* "적용구분 = 1 if context.X > 0 else 0"
Jeogyong(v) == IF v > 0 THEN "1" ELSE "0"

\* ------------------------------------------ Pass 2, string: substitution
\* CSVLoader sets self._참조_index only in _build_참조_index, which load_참조
\* calls after it found 참조.csv: FALSE while the attribute does not exist.
VARIABLE chamjo_index_built

\* Python's seq[idx] for idx >= -1 (a negative index counts from the end).
PyIndexOk(seq, idx) == IF idx >= 0 THEN idx < Len(seq) ELSE Len(seq) + idx >= 0
PyGet(seq, idx) == IF idx >= 0 THEN seq[idx + 1] ELSE seq[Len(seq) + idx + 1]

\* self.substitution_patterns, in order.
substitution_patterns ==
    <<"danche", "gamaek", "gamaek2", "yeonjang", "bumo", "yeyak", "jindan", "sebu", "botong">>

SubMatches(pat, tag) ==
    CASE pat \in {"danche", "gamaek", "yeonjang", "bumo", "yeyak"} ->
             tag.t = "sub" /\ tag.name = pat
      [] pat \in {"jindan", "sebu"} -> tag.t = "sub" /\ tag.name = pat /\ tag.n # NoN
      [] pat = "gamaek2" -> tag.t = "g2"
      [] pat = "botong" -> tag.t = "botong"
      [] OTHER -> FALSE

replace_danche(rows, tag, c) ==
    lookup_chamjo(rows, Sub("danche", IF tag.n = NoN THEN 1 ELSE tag.n), "danche",
                  Jeogyong(c.danche))

replace_gamaek(rows, tag, c) ==
    lookup_chamjo(rows, Sub("gamaek", IF tag.n = NoN THEN 1 ELSE tag.n), "gamaek",
                  Jeogyong(c.gamaek))

replace_gamaek2(rows, tag, c) ==
    lookup_chamjo(rows, Sub("gamaek", 2), "gamaek", Jeogyong(c.gamaek))

replace_yeonjang(rows, tag, c) ==
    lookup_chamjo(rows, Sub("yeonjang", tag.n), "yeonjang", Jeogyong(c.yeonjang))

replace_bumo(rows, tag, c) ==
    lookup_chamjo(rows, Sub("bumo", tag.n), "bumo", Jeogyong(c.bumo))

replace_yeyak(rows, tag, c) ==
    lookup_chamjo(rows, Sub("yeyak", tag.n), "yeyak_yeonryeong", Jeogyong(c.yeyak_yeonryeong))

replace_botong(rows, tag, c) == lookup_chamjo(rows, Botong, None, None)

replace_jindan(rows, tag, c) ==
    lookup_chamjo(rows, Sub("jindan", tag.n), "jindan", Jeogyong(c.jindan))

\* "if idx < len(list)" lets n = 0 through: list[-1] is the last entry, and
\* an IndexError when the list is empty.
replace_sebu_raises(tag, c) == tag.n - 1 < Len(c.sebu_list) /\ ~PyIndexOk(c.sebu_list, tag.n - 1)

replace_sebu(tag, c) ==
    IF tag.n - 1 < Len(c.sebu_list) /\ PyGet(c.sebu_list, tag.n - 1) # <<>>
    THEN <<Ch("[")>> \o PyGet(c.sebu_list, tag.n - 1) \o <<Ch("]")>>
    ELSE <<>>

SubHandler(pat, rows, tag, c) ==
    CASE pat = "danche" -> replace_danche(rows, tag, c)
      [] pat = "gamaek" -> replace_gamaek(rows, tag, c)
      [] pat = "gamaek2" -> replace_gamaek2(rows, tag, c)
      [] pat = "yeonjang" -> replace_yeonjang(rows, tag, c)
      [] pat = "bumo" -> replace_bumo(rows, tag, c)
      [] pat = "yeyak" -> replace_yeyak(rows, tag, c)
      [] pat = "jindan" -> replace_jindan(rows, tag, c)
      [] pat = "sebu" -> replace_sebu(tag, c)
      [] OTHER -> replace_botong(rows, tag, c)

\* re.sub(pattern, handler, text): matches left to right, no overlap, the
\* replacement is not scanned again.
RECURSIVE re_sub_from(_, _, _, _, _)
re_sub_from(t, pat, rows, c, i) ==
    IF i > Len(t) THEN <<>>
    ELSE IF OccLen(t, i) > 0 /\ SubMatches(pat, OccTag(t, i))
    THEN SubHandler(pat, rows, OccTag(t, i), c) \o re_sub_from(t, pat, rows, c, i + OccLen(t, i))
    ELSE <<t[i]>> \o re_sub_from(t, pat, rows, c, i + 1)

\* A handler of the pass raises: _replace_세부보장 on its index, every other
\* handler in find_참조문구 (AttributeError) when the index was never built.
SubRaises(t, pat, c) ==
    \E i \in 1..Len(t) :
        /\ OccLen(t, i) > 0
        /\ SubMatches(pat, OccTag(t, i))
        /\ IF pat = "sebu" THEN replace_sebu_raises(OccTag(t, i), c)
           ELSE ~chamjo_index_built

\* A pass's result: the text, or ok = FALSE when a handler raised.
RECURSIVE process_substitution_from(_, _, _, _)
process_substitution_from(r, rows, c, idx) ==
    IF idx > Len(substitution_patterns) \/ ~r.ok THEN r
    ELSE IF SubRaises(r.text, substitution_patterns[idx], c)
    THEN [ok |-> FALSE, text |-> r.text]
    ELSE process_substitution_from(
             [ok |-> TRUE, text |-> re_sub_from(r.text, substitution_patterns[idx], rows, c, 1)],
             rows, c, idx + 1)

process_substitution_tags(t, rows, c) ==
    process_substitution_from([ok |-> TRUE, text |-> t], rows, c, 1)

\* ------------------------------------- Pass 3, string: computed (PGM) tags
DigitChars == <<"0", "1", "2", "3", "4", "5", "6", "7", "8", "9">>
DigitValue(p) == CHOOSE d \in 0..9 : DigitChars[d + 1] = p.name

\* str(n) for n >= 0, one piece per digit.
RECURSIVE Digits(_)
Digits(n) ==
    IF n < 10 THEN <<Ch(DigitChars[n + 1])>>
    ELSE Digits(n \div 10) \o <<Ch(DigitChars[(n % 10) + 1])>>

\* sorted(list) of integers.
RECURSIVE SortInts(_)
SortInts(s) ==
    IF s = <<>> THEN <<>>
    ELSE LET i == CHOOSE j \in 1..Len(s) :
                     /\ \A l \in 1..Len(s) : s[j] <= s[l]
                     /\ \A l \in 1..(j - 1) : s[l] # s[j]
         IN  <<s[i]>> \o SortInts(SubSeq(s, 1, i - 1) \o SubSeq(s, i + 1, Len(s)))

\* A float is a fraction num/den, den > 0.
Rat(a, b) == [num |-> a, den |-> b]
RatLeq(x, y) == x.num * y.den <= y.num * x.den
RatMul(x, y) == Rat(x.num * y.num, x.den * y.den)
RatDiv(x, y) == Rat(x.num * y.den, x.den * y.num)

\* sorted(list) of floats.
RECURSIVE SortRats(_)
SortRats(s) ==
    IF s = <<>> THEN <<>>
    ELSE LET i == CHOOSE j \in 1..Len(s) :
                     /\ \A l \in 1..Len(s) : RatLeq(s[j], s[l])
                     /\ \A l \in 1..(j - 1) : ~RatLeq(s[l], s[j])
         IN  <<s[i]>> \o SortRats(SubSeq(s, 1, i - 1) \o SubSeq(s, i + 1, Len(s)))

\* _format_기간 with the month branch taken up to 365 days.
format_gigan_le365(days) ==
    IF days = 0 THEN <<>>
    ELSE IF days < 30 THEN Digits(days) \o <<Ch("il")>>
    ELSE IF days <= 365
    THEN IF days % 30 = 0 THEN Digits(days \div 30) \o <<Ch("gaewol")>>
         ELSE Digits(days) \o <<Ch("il")>>
    ELSE IF days % 365 = 0 THEN Digits(days \div 365) \o <<Ch("nyeon")>>
         ELSE Digits(days) \o <<Ch("il")>>

\* _format_기간: "일" is Ch("il"), "개월" Ch("gaewol"), "년" Ch("nyeon")
format_gigan(days) ==
    IF days = 0 THEN <<>>
    ELSE IF days < 30 THEN Digits(days) \o <<Ch("il")>>
    ELSE IF days < 365
    THEN IF days % 30 = 0 THEN Digits(days \div 30) \o <<Ch("gaewol")>>
         ELSE Digits(days) \o <<Ch("il")>>
    ELSE IF days % 365 = 0 THEN Digits(days \div 365) \o <<Ch("nyeon")>>
         ELSE Digits(days) \o <<Ch("il")>>

replace_gamaek_gigan_raises(tag, c) ==
    /\ tag.n - 1 < Len(c.gamaek_gigan_list)
    /\ \/ ~PyIndexOk(c.gamaek_gigan_list, tag.n - 1)
       \/ LET gigan_list == PyGet(c.gamaek_gigan_list, tag.n - 1)
          IN  tag.k - 1 < Len(gigan_list) /\ ~PyIndexOk(gigan_list, tag.k - 1)

\* _replace_감액기간 that indexes the list in its stored order.
replace_gamaek_gigan_unsorted(tag, c) ==
    IF tag.n - 1 < Len(c.gamaek_gigan_list)
    THEN LET gigan_list == PyGet(c.gamaek_gigan_list, tag.n - 1)
         IN  IF tag.k - 1 < Len(gigan_list)
             THEN format_gigan(PyGet(gigan_list, tag.k - 1))
             ELSE <<Ch("NA")>>
    ELSE <<Ch("NA")>>

replace_gamaek_gigan(tag, c) ==
    IF tag.n - 1 < Len(c.gamaek_gigan_list)
    THEN LET gigan_list == SortInts(PyGet(c.gamaek_gigan_list, tag.n - 1))
         IN  IF tag.k - 1 < Len(gigan_list)
             THEN format_gigan(PyGet(gigan_list, tag.k - 1))
             ELSE <<Ch("NA")>>
    ELSE <<Ch("NA")>>

\* The tail of the 지급률 pattern after the closing brace, from position j:
\* (\*|\/)?(\d+\.?\d*)?(%)?   Every group is optional on its own.
RECURSIVE DigitRun(_, _)
DigitRun(t, j) == IF j <= Len(t) /\ IsDigit(t[j]) THEN 1 + DigitRun(t, j + 1) ELSE 0

RECURSIVE DigitsNumber(_, _, _)
DigitsNumber(t, j, cnt) ==
    IF cnt = 0 THEN 0 ELSE DigitsNumber(t, j, cnt - 1) * 10 + DigitValue(t[j + cnt - 1])

RECURSIVE Pow10(_)
Pow10(e) == IF e = 0 THEN 1 ELSE 10 * Pow10(e - 1)

IsCh(t, j, c) == j <= Len(t) /\ t[j] = Ch(c)

JigeupTail(t, j) ==
    LET opLen == IF IsCh(t, j, "*") \/ IsCh(t, j, "/") THEN 1 ELSE 0
        d1 == DigitRun(t, j + opLen)
        dot == IF d1 > 0 /\ IsCh(t, j + opLen + d1, ".") THEN 1 ELSE 0
        d2 == IF dot = 1 THEN DigitRun(t, j + opLen + d1 + 1) ELSE 0
        numLen == d1 + dot + d2
        pct == IF IsCh(t, j + opLen + numLen, "%") THEN 1 ELSE 0
    IN  [operator |-> IF opLen = 1 THEN t[j].name ELSE None,
         hasOperand |-> d1 > 0,
         operand |-> Rat(DigitsNumber(t, j + opLen, d1) * Pow10(d2)
                             + DigitsNumber(t, j + opLen + d1 + 1, d2), Pow10(d2)),
         percent |-> pct = 1,
         len |-> opLen + numLen + pct]

\* f"{int(v)}" when v == int(v), else f"{v:.1f}" (v >= 0; a tie rounds to even)
FormatRate(v) ==
    IF v.num % v.den = 0 THEN Digits(v.num \div v.den)
    ELSE LET q == (10 * v.num) \div v.den
             r == (10 * v.num) % v.den
             tenths == IF 2 * r > v.den \/ (2 * r = v.den /\ q % 2 = 1) THEN q + 1 ELSE q
         IN  Digits(tenths \div 10) \o <<Ch(".")>> \o Digits(tenths % 10)

\* The indexing of _replace_지급률 down to the K-th rate: found, or why not.
JigeupFind(tag, c) ==
    IF tag.n - 1 >= Len(c.daepyo_list) THEN [st |-> "none"]
    ELSE IF ~PyIndexOk(c.daepyo_list, tag.n - 1) THEN [st |-> "raise"]
    ELSE LET code == PyGet(c.daepyo_list, tag.n - 1)
         IN  IF code \notin DOMAIN c.jigeupryul_data THEN [st |-> "none"]
             ELSE LET sebu == c.jigeupryul_data[code]
                  IN  IF tag.m - 1 >= Len(sebu) THEN [st |-> "none"]
                      ELSE IF ~PyIndexOk(sebu, tag.m - 1) THEN [st |-> "raise"]
                      ELSE LET l == SortRats(PyGet(sebu, tag.m - 1))
                           IN  IF tag.k - 1 >= Len(l) THEN [st |-> "none"]
                               ELSE IF ~PyIndexOk(l, tag.k - 1) THEN [st |-> "raise"]
                               ELSE [st |-> "found", v |-> PyGet(l, tag.k - 1)]

\* float division by a zero operand raises ZeroDivisionError
replace_jigeupryul_raises(tag, tail, c) ==
    LET f == JigeupFind(tag, c)
    IN  \/ f.st = "raise"
        \/ f.st = "found" /\ tail.operator = "/" /\ tail.hasOperand /\ tail.operand.num = 0

\* _replace_지급률 that multiplies whatever the operator is.
replace_jigeupryul_multiplies(tag, tail, c) ==
    LET f == JigeupFind(tag, c)
    IN  IF f.st # "found" THEN <<>>
        ELSE LET v == IF tail.operator = None \/ ~tail.hasOperand THEN f.v
                      ELSE RatMul(f.v, tail.operand)
             IN  FormatRate(v) \o (IF tail.percent THEN <<Ch("%")>> ELSE <<>>)

replace_jigeupryul(tag, tail, c) ==
    LET f == JigeupFind(tag, c)
    IN  IF f.st # "found" THEN <<>>
        ELSE LET v == IF tail.operator = None \/ ~tail.hasOperand THEN f.v
                      ELSE IF tail.operator = "*" THEN RatMul(f.v, tail.operand)
                      ELSE RatDiv(f.v, tail.operand)
             IN  FormatRate(v) \o (IF tail.percent THEN <<Ch("%")>> ELSE <<>>)

\* self.pgm_patterns, in order
pgm_patterns == <<"gamaek_gigan", "jigeupryul">>

PgmMatches(pat, tag) ==
    IF pat = "gamaek_gigan" THEN tag.t = "gigan" ELSE tag.t = "jigeup"

RECURSIVE re_sub_pgm_from(_, _, _, _)
re_sub_pgm_from(t, pat, c, i) ==
    IF i > Len(t) THEN <<>>
    ELSE IF OccLen(t, i) > 0 /\ PgmMatches(pat, OccTag(t, i))
    THEN IF pat = "gamaek_gigan"
         THEN replace_gamaek_gigan(OccTag(t, i), c)
                  \o re_sub_pgm_from(t, pat, c, i + OccLen(t, i))
         ELSE LET tail == JigeupTail(t, i + OccLen(t, i))
              IN  replace_jigeupryul(OccTag(t, i), tail, c)
                      \o re_sub_pgm_from(t, pat, c, i + OccLen(t, i) + tail.len)
    ELSE <<t[i]>> \o re_sub_pgm_from(t, pat, c, i + 1)

PgmRaises(t, pat, c) ==
    \E i \in 1..Len(t) :
        /\ OccLen(t, i) > 0
        /\ PgmMatches(pat, OccTag(t, i))
        /\ IF pat = "gamaek_gigan" THEN replace_gamaek_gigan_raises(OccTag(t, i), c)
           ELSE replace_jigeupryul_raises(OccTag(t, i), JigeupTail(t, i + OccLen(t, i)), c)

RECURSIVE process_pgm_from(_, _, _)
process_pgm_from(r, c, idx) ==
    IF idx > Len(pgm_patterns) \/ ~r.ok THEN r
    ELSE IF PgmRaises(r.text, pgm_patterns[idx], c)
    THEN [ok |-> FALSE, text |-> r.text]
    ELSE process_pgm_from(
             [ok |-> TRUE, text |-> re_sub_pgm_from(r.text, pgm_patterns[idx], c, 1)], c, idx + 1)

process_pgm_tags(t, c) == process_pgm_from([ok |-> TRUE, text |-> t], c, 1)

\* ------------------------------------------------ Range (Word) processing
\* A Word Range is the span (start, end] of piece positions of the document
\* text; its End follows the edits made inside it.  d = [text, rs, re].
RangeOf(d) == Slice(d.text, d.rs, d.re)

\* Find.Execute(FindText = literal, Forward, wdFindStop) in the span (a, b]:
\* the first position where the whole literal lies inside, or 0.
FindLit(t, tag, a, b) ==
    LET hits == {i \in (a + 1)..b :
                    OccLen(t, i) > 0 /\ i - 1 + OccLen(t, i) <= b /\ OccTag(t, i) = tag}
    IN  IF hits = {} THEN 0 ELSE CHOOSE i \in hits : \A j \in hits : i <= j

\* doc.Range(a, b).Delete() with a, b inside the range
DeleteSpan(d, a, b) ==
    [d EXCEPT !.text = Slice(d.text, 0, a) \o Slice(d.text, b, Len(d.text)),
              !.re = d.re - (b - a)]

\* "max_iterations = 50"
max_iterations == 50

RECURSIVE delete_range_tag_pair_loop(_, _, _, _, _, _)
delete_range_tag_pair_loop(d, tag1, tag2, attr_value, rule_type, iteration) ==
    IF iteration >= max_iterations THEN d
    ELSE LET p1 == FindLit(d.text, tag1, d.rs, d.re)
         IN  IF p1 = 0 THEN d
             ELSE LET tag1_start == p1 - 1
                      tag1_end == p1 - 1 + OccLen(d.text, p1)
                      p2 == FindLit(d.text, tag2, tag1_end, d.re)
                  IN  IF p2 = 0 THEN d
                      ELSE LET tag2_start == p2 - 1
                               tag2_end == p2 - 1 + OccLen(d.text, p2)
                               tagsOnly == IF rule_type = 12 THEN attr_value ELSE ~attr_value
                           IN  delete_range_tag_pair_loop(
                                   IF tagsOnly
                                   THEN DeleteSpan(DeleteSpan(d, tag2_start, tag2_end),
                                                   tag1_start, tag1_end)
                                   ELSE DeleteSpan(d, tag1_start, tag2_end),
                                   tag1, tag2, attr_value, rule_type, iteration + 1)

delete_range_tag_pair(d, tag1, tag2, attr_value, rule_type) ==
    delete_range_tag_pair_loop(d, tag1, tag2, attr_value, rule_type, 0)

\* tag_name is NAME followed by N
process_single_range_output_tag(d, name, n, attr_value) ==
    delete_range_tag_pair(
        delete_range_tag_pair(d, OC(name, n, 1), OC(name, n, 2), attr_value, 12),
        OC(name, n, 3), OC(name, n, 4), attr_value, 34)

\* The tag literals of a text, by start position.
TagsOf(t) == {OccTag(t, i) : i \in {j \in 1..Len(t) : OccLen(t, j) > 0}}

\* The fast string check of process_range ('{면책0-', '{독립특약0-', '{비갱신', ...)
HasOutputTags(t) ==
    \E g \in TagsOf(t) :
        \/ g.t = "oc" /\ g.name \in {"myeonchaek", "dokrip"} /\ g.n = 0
        \/ g.t \in {"oc", "sub"}
             /\ g.name \in {"bigaengsin", "gaengsin", "jadong", "gamaek_isseum",
                            "gamaek_hanbeon", "gamaek_dubeon", "jindan"}

\* base_tags, in order, with the attribute each one tests
BaseTags(c) ==
    << [name |-> "myeonchaek", n |-> 0, attr |-> c.myeonchaek > 0],
       [name |-> "dokrip", n |-> 0, attr |-> c.dokrip > 0],
       [name |-> "bigaengsin", n |-> 0, attr |-> c.bigaengsin > 0 \/ c.jadong = 0],
       [name |-> "gaengsin", n |-> 0, attr |-> c.jadong > 0],
       [name |-> "jadong", n |-> 0, attr |-> c.jadong > 0] >>

\* n_tag_patterns, in order
NTagPatterns(c) ==
    << [name |-> "gamaek_isseum", attr |-> c.gamaek > 0],
       [name |-> "bigaengsin", attr |-> c.bigaengsin > 0 \/ c.jadong = 0],
       [name |-> "gaengsin", attr |-> c.jadong > 0],
       [name |-> "gamaek_hanbeon", attr |-> c.gamaek_hanbeon],
       [name |-> "gamaek_dubeon", attr |-> c.gamaek_dubeon],
       [name |-> "jindan", attr |-> c.jindan > 0],
       [name |-> "jadong", attr |-> c.jadong > 0] >>

\* The N of the {NAME N- literals of t, each once, in order of first occurrence.
RECURSIVE FoundNs(_, _, _, _)
FoundNs(t, name, i, seen) ==
    IF i > Len(t) THEN <<>>
    ELSE IF /\ OccLen(t, i) > 0
            /\ OccTag(t, i).t = "oc"
            /\ OccTag(t, i).name = name
            /\ OccTag(t, i).n \notin seen
    THEN <<OccTag(t, i).n>> \o FoundNs(t, name, i + 1, seen \cup {OccTag(t, i).n})
    ELSE FoundNs(t, name, i + 1, seen)

RECURSIVE BaseConfigs(_, _, _)
BaseConfigs(t, c, idx) ==
    IF idx > Len(BaseTags(c)) THEN <<>>
    ELSE LET b == BaseTags(c)[idx]
         IN  (IF \E g \in TagsOf(t) : g.t = "oc" /\ g.name = b.name /\ g.n = 0
              THEN <<b>> ELSE <<>>) \o BaseConfigs(t, c, idx + 1)

RECURSIVE NConfigs(_, _, _)
NConfigs(t, c, idx) ==
    IF idx > Len(NTagPatterns(c)) THEN <<>>
    ELSE LET p == NTagPatterns(c)[idx]
             ns == FoundNs(t, p.name, 1, {})
         IN  [j \in 1..Len(ns) |-> [name |-> p.name, n |-> ns[j], attr |-> p.attr]]
                 \o NConfigs(t, c, idx + 1)

tag_configs(t, c) == BaseConfigs(t, c, 1) \o NConfigs(t, c, 1)

RECURSIVE range_process_configs(_, _, _)
range_process_configs(d, configs, idx) ==
    IF idx > Len(configs) THEN d
    ELSE range_process_configs(
             process_single_range_output_tag(d, configs[idx].name, configs[idx].n,
                                             configs[idx].attr),
             configs, idx + 1)

range_process_output_control_tags(d, c, cached_text) ==
    range_process_configs(d, tag_configs(cached_text, c), 1)

\* _build_replacement_dict: the dict as the sequence of its (tag, text)
\* entries in insertion order.  "tag in doc_text" is a substring test.
InText(tag, doc_text) == tag \in TagsOf(doc_text)

\* for n in range(1, hi): the n whose literal is in the text, ascending
NumbersIn(doc_text, t, name, hi) ==
    SortedSeq({g.n : g \in {h \in TagsOf(doc_text) :
                                h.t = t /\ h.name = name /\ h.n >= 1 /\ h.n < hi}})

\* Python's None where a text is expected ("if val is not None").
NoneText == <<[f |-> "w", t |-> "none", name |-> "None", n |-> 0, m |-> 0, k |-> 0]>>

\* "for n in range(1, 21): ... if tag_num in doc_text": the numbered literal
\* first, on None the bare literal, on None again no entry.
RECURSIVE NumberedEntries(_, _, _, _, _, _)
NumberedEntries(rows, tag_base, context_attr_name, jeogyong, ns, j) ==
    IF j > Len(ns) THEN <<>>
    ELSE LET tag_num == Sub(tag_base, ns[j])
             val == lookup_chamjo(rows, tag_num, context_attr_name, jeogyong)
             val2 == lookup_chamjo(rows, Sub(tag_base, NoN), context_attr_name, jeogyong)
         IN  (IF val # NoneText THEN <<[tag |-> tag_num, val |-> val]>>
              ELSE IF val2 # NoneText THEN <<[tag |-> tag_num, val |-> val2]>>
              ELSE <<>>)
             \o NumberedEntries(rows, tag_base, context_attr_name, jeogyong, ns, j + 1)

\* process_numbered_tags(tag_base, context_attr_name, context_val)
process_numbered_tags(rows, doc_text, tag_base, context_attr_name, context_val) ==
    LET jeogyong == Jeogyong(context_val)
        tag_plain == Sub(tag_base, NoN)
        ns == NumbersIn(doc_text, "sub", tag_base, 21)
    IN  (IF InText(tag_plain, doc_text)
         THEN <<[tag |-> tag_plain,
                 val |-> lookup_chamjo(rows, tag_plain, context_attr_name, jeogyong)]>>
         ELSE <<>>)
        \o NumberedEntries(rows, tag_base, context_attr_name, jeogyong, ns, 1)

Gamaek2Entries(rows, c, doc_text) ==
    LET ns == NumbersIn(doc_text, "g2", "gamaek2", 10)
    IN  [j \in 1..Len(ns) |->
            [tag |-> Gamaek2(ns[j]),
             val |-> lookup_chamjo(rows, Sub("gamaek", 2), "gamaek", Jeogyong(c.gamaek))]]

JindanEntries(rows, c, doc_text) ==
    LET ns == NumbersIn(doc_text, "sub", "jindan", 21)
    IN  [j \in 1..Len(ns) |->
            [tag |-> Sub("jindan", ns[j]),
             val |-> lookup_chamjo(rows, Sub("jindan", ns[j]), "jindan", Jeogyong(c.jindan))]]

SebuEntries(c, doc_text) ==
    LET ns == NumbersIn(doc_text, "sub", "sebu", 21)
    IN  [j \in 1..Len(ns) |->
            [tag |-> Sub("sebu", ns[j]),
             val |-> IF ns[j] - 1 < Len(c.sebu_list) /\ c.sebu_list[ns[j]] # <<>>
                     THEN <<Ch("[")>> \o c.sebu_list[ns[j]] \o <<Ch("]")>>
                     ELSE <<>>]]

\* for n, 기간_list in enumerate(감액기간_list, 1): for k, 기간 in enumerate(sorted, 1)
RECURSIVE GiganEntries(_, _, _, _)
GiganEntries(c, doc_text, n, k) ==
    IF n > Len(c.gamaek_gigan_list) THEN <<>>
    ELSE LET sorted_list == SortInts(c.gamaek_gigan_list[n])
         IN  IF k > Len(sorted_list) THEN GiganEntries(c, doc_text, n + 1, 1)
             ELSE (IF InText(Gigan(n, k), doc_text)
                   THEN <<[tag |-> Gigan(n, k), val |-> format_gigan(sorted_list[k])]>>
                   ELSE <<>>) \o GiganEntries(c, doc_text, n, k + 1)

build_replacement_dict(rows, c, doc_text) ==
    process_numbered_tags(rows, doc_text, "danche", "danche", c.danche)
        \o process_numbered_tags(rows, doc_text, "gamaek", "gamaek", c.gamaek)
        \o Gamaek2Entries(rows, c, doc_text)
        \o process_numbered_tags(rows, doc_text, "yeonjang", "yeonjang", c.yeonjang)
        \o process_numbered_tags(rows, doc_text, "bumo", "bumo", c.bumo)
        \o process_numbered_tags(rows, doc_text, "yeyak", "yeyak_yeonryeong", c.yeyak_yeonryeong)
        \o JindanEntries(rows, c, doc_text)
        \o SebuEntries(c, doc_text)
        \o GiganEntries(c, doc_text, 1, 1)

\* "max_loop = 100"
max_loop == 100

\* The manual replacement loop of _range_find_replace_tags for one entry:
\* find from position `from` to the range end, set the found text, collapse
\* to its end, find again.
RECURSIVE range_replace_loop(_, _, _, _, _)
range_replace_loop(d, tag, val, from, replace_count) ==
    IF replace_count >= max_loop THEN d
    ELSE LET p == FindLit(d.text, tag, from, d.re)
         IN  IF p = 0 THEN d
             ELSE LET len == OccLen(d.text, p)
                      nd == [d EXCEPT
                                !.text = Slice(d.text, 0, p - 1) \o val
                                             \o Slice(d.text, p - 1 + len, Len(d.text)),
                                !.re = d.re - len + Len(val)]
                  IN  range_replace_loop(nd, tag, val, p - 1 + Len(val), replace_count + 1)

range_replace(d, tag, val) == range_replace_loop(d, tag, val, d.rs, 0)

\* combined_pattern of _range_cleanup_remaining_tags against one tag literal:
\* \{(?:NAMES)\d*(?:-\d+)?(?:-\d+)?\}
CleanupNames ==
    {"yeonjang", "bumo", "yeyak", "danche", "gamaek", "jindan", "sebu", "gamaek_gigan",
     "jigeupryul", "myeonchaek", "gamaek_isseum", "bigaengsin", "gaengsin",
     "gamaek_hanbeon", "gamaek_dubeon", "jadong", "dokrip"}

CleanupMatches(tag) ==
    \/ tag.t \in {"oc", "sub", "gigan", "jigeup"} /\ tag.name \in CleanupNames
    \/ tag.t = "g2"

tags_to_delete(full_text) == {g \in TagsOf(full_text) : CleanupMatches(g)}

\* find.Execute(FindText = tag, ReplaceWith = "", Replace = wdReplaceAll):
\* one scan of the range, the joined text is not scanned again.
RECURSIVE replace_all_from(_, _, _)
replace_all_from(d, tag, from) ==
    LET p == FindLit(d.text, tag, from, d.re)
    IN  IF p = 0 THEN d
        ELSE replace_all_from(DeleteSpan(d, p - 1, p - 1 + OccLen(d.text, p)), tag, p - 1)

replace_all(d, tag) == replace_all_from(d, tag, d.rs)

\* ------------------------------------------------------------------ state
\* mode    "str": process_all_tags(text, ctx);  "rng": process_range(range, ctx)
\* pc      the position in the running call
\* text    the text (str) or the document that holds the range (rng)
\* rs, re  the Range: Start and End (rng)
\* ctx     the TagContext;  tbl: the rows of 참조.csv
\* input   the text unit handed to the call;  round, out1: the call count and
\*         the first call's result, for a second call on the result
\* cached  full_text of process_range;  repl: the replacement dict entries
\*         not yet applied;  todel: tags_to_delete not yet applied
\* passes  the passes run by the current call, in order
\* q, res  a ReferenceLookup query and what the call returned
\* coverage_list, loop_i   the worklist of execute and the loop index
\* source_doc               the comments of the source document, in order
\* target_comment_objects   self._target_comment_objects: the section comments
\* copied_list_strings      self.copied_list_strings
\* target_doc               the paragraphs of the target document
\* print_dambo              the fields of the PrintDambo object read from PGM
\* target_range             the range _copy_terms returned in the last pass
\* revised                  the loop indexes whose inserted span was expanded
\* btn_print                whether the button of run_print_dambo is enabled
\* clicks, clicked          the clicks pending in the event queue; all clicks made
\* finished_signal          the finished signals pending in the event queue
\* stack                    the activations of run_print_dambo on the GUI thread
\* workers                  the WorkerThreads started, with their progress
\* documents                the documents of the Word application
VARIABLES mode, pc, text, rs, re, ctx, tbl, input, round, out1, cached, repl, todel, passes,
          q, res,
          coverage_list, loop_i, source_doc, target_comment_objects, copied_list_strings,
          target_doc, print_dambo, target_range, revised,
          btn_print, clicks, clicked, finished_signal, stack, workers, documents,
          arr_gujo, arr_mapping, pgm_self, sebubojangmyeong_list,
          scan_i, iterations

expander_vars == <<text, rs, re, input, round, out1, cached, repl, todel, passes>>
lookup_vars == <<q, res, chamjo_index_built>>
run_vars == <<coverage_list, loop_i, source_doc, target_comment_objects,
              copied_list_strings, target_doc, print_dambo, target_range, revised>>
gui_vars == <<btn_print, clicks, clicked, finished_signal, stack, workers, documents>>
pgm_vars == <<arr_gujo, arr_mapping, pgm_self, sebubojangmyeong_list>>
scan_vars == <<scan_i, iterations>>
vars == <<mode, pc, ctx, tbl, expander_vars, lookup_vars, run_vars, gui_vars, pgm_vars,
          scan_vars>>

Doc == [text |-> text, rs |-> rs, re |-> re]
\* What the call leaves: the returned string, or the text of the range.
Result == IF mode = "str" THEN text ELSE Slice(text, rs, re)

\* ------------------------------------------------------------------ inputs
SeqsUpTo(S, n) == UNION {[1..l -> S] : l \in 0..n}

P == Ch("P")
Q == Ch("Q")

\* Output-control texts: one tag name, two ordinals, all four K.
OCPieces ==
    {Ch("a"), OC("gamaek_isseum", 1, 1), OC("gamaek_isseum", 1, 2),
     OC("gamaek_isseum", 1, 3), OC("gamaek_isseum", 1, 4), OC("gamaek_isseum", 2, 2)}

\* Substitution texts, with the rows that may stand in the reference table.
SubPieces ==
    {Ch("a"), Sub("danche", 1), Sub("danche", NoN), Sub("yeonjang", 1),
     Sub("yeonjang", NoN), Botong, OC("myeonchaek", 0, 1)}

SubRows ==
    {[kodeumyeong |-> Sub("danche", 1), sokseong |-> "danche", jeogyong |-> "", mungu |-> <<P>>],
     [kodeumyeong |-> Sub("danche", 1), sokseong |-> "danche", jeogyong |-> "1", mungu |-> <<Q>>],
     [kodeumyeong |-> Sub("yeonjang", 1), sokseong |-> "yeonjang", jeogyong |-> "1", mungu |-> <<P>>],
     [kodeumyeong |-> Sub("yeonjang", NoN), sokseong |-> "yeonjang", jeogyong |-> "1", mungu |-> <<Q>>],
     [kodeumyeong |-> Sub("yeonjang", NoN), sokseong |-> "yeonjang", jeogyong |-> "0", mungu |-> <<>>]}

\* Computed-tag texts.
PgmPieces ==
    {Ch("a"), Gigan(1, 1), Gigan(1, 2), Gigan(2, 1), Gigan(1, 0), Jigeup(1, 1, 1), Jigeup(1, 1, 2),
     Ch("*"), Ch("/"), Ch("2"), Ch("%")}

PgmContexts ==
    {[TagContext EXCEPT !.gamaek_gigan_list = <<<<365, 180>>>>,
                        !.daepyo_list = <<"D1">>,
                        !.jigeupryul_data = [x \in {"D1"} |-> <<<<Rat(100, 1), Rat(50, 1)>>>>]],
     [TagContext EXCEPT !.gamaek_gigan_list = <<<<90>>>>,
                        !.daepyo_list = <<"D1">>,
                        !.jigeupryul_data = [x \in {"D1"} |-> <<<<Rat(75, 1)>>>>]]}

\* Texts in which one marker is cut in two by other tags.
CutTag == OC("myeonchaek", 0, 2)
JoinPieces ==
    {Ch("a"), OC("myeonchaek", 0, 1), LeftOf(CutTag), RightOf(CutTag), Sub("danche", 1),
     OC("gamaek_isseum", 1, 1), OC("gamaek_isseum", 1, 2)}

\* The text around the range in the document.
Before == <<Ch("<")>>
After == <<OC("gamaek_isseum", 1, 2), Sub("danche", 1), Ch(">")>>

InitCommon ==
    /\ pc = "start"
    /\ round = 1
    /\ out1 = <<>>
    /\ cached = <<>>
    /\ repl = <<>>
    /\ todel = {}
    /\ passes = <<>>
    /\ mode \in {"str", "rng"}
    /\ text = IF mode = "str" THEN input ELSE Before \o input \o After
    /\ rs = IF mode = "str" THEN 0 ELSE Len(Before)
    /\ re = IF mode = "str" THEN 0 ELSE Len(Before) + Len(input)

InitOC ==
    /\ input \in SeqsUpTo(OCPieces, MaxLen)
    /\ \E g \in {0, 1} : ctx = [TagContext EXCEPT !.gamaek = g]
    /\ tbl = <<>>

InitSub ==
    /\ input \in SeqsUpTo(SubPieces, MaxLen - 3)
    /\ \E g \in {0, 1}, h \in {0, 1} : ctx = [TagContext EXCEPT !.danche = g, !.yeonjang = h]
    /\ tbl \in SeqsUpTo(SubRows, MaxRows)

InitPgm ==
    /\ input \in SeqsUpTo(PgmPieces, MaxLen - 2)
    /\ ctx \in PgmContexts
    /\ tbl = <<>>

\* Texts with {세부보장N} tags, and the 세부보장명 lists of the context.
SebuPieces == {Ch("a"), Sub("sebu", 0), Sub("sebu", 1), Sub("sebu", 2), Sub("sebu", 3)}

SebuLists == {<<>>, <<<<P>>>>, <<<<P>>, <<Q>>>>}

InitSebu ==
    /\ input \in SeqsUpTo(SebuPieces, MaxLen - 3)
    /\ \E l \in SebuLists : ctx = [TagContext EXCEPT !.sebu_list = l]
    /\ tbl = <<>>

InitJoin ==
    /\ input \in SeqsUpTo(JoinPieces, MaxLen - 1)
    /\ \E g \in {0, 1} : ctx = [TagContext EXCEPT !.myeonchaek = g, !.gamaek = g]
    /\ tbl = <<>>

NoQuery == [kodeumyeong |-> Sub("danche", 1), sokseong |-> None, jeogyong |-> None]

LookupIdle ==
    /\ q = NoQuery
    /\ res = <<>>
    /\ chamjo_index_built = TRUE

\* PrintDambo.__init__: the fields _read_pgm_loop and _revise_terms use
InitPrintDambo ==
    [m_point |-> 0, sebu_gaesu |-> 0, min_riskrate_row |-> 0, sebu_bencoef |-> <<>>,
     is_gamaek_dubeon |-> FALSE, sum_myeonchaek |-> 0, sum_gamaek |-> 0]

RunIdle ==
    /\ coverage_list = <<>>
    /\ loop_i = 0
    /\ source_doc = <<>>
    /\ target_comment_objects = <<>>
    /\ copied_list_strings = {}
    /\ target_doc = <<>>
    /\ print_dambo = InitPrintDambo
    /\ target_range = <<>>
    /\ revised = {}

ScanIdle == scan_i = 0 /\ iterations = 0

PgmIdle ==
    /\ arr_gujo = <<>> /\ arr_mapping = <<>>
    /\ pgm_self = InitPrintDambo /\ sebubojangmyeong_list = <<>>

GuiIdle ==
    /\ btn_print = FALSE /\ clicks = 0 /\ clicked = 0 /\ finished_signal = 0
    /\ stack = <<>> /\ workers = <<>> /\ documents = <<>>

ExpanderIdle ==
    /\ text = <<>> /\ rs = 0 /\ re = 0
    /\ input = <<>> /\ round = 1 /\ out1 = <<>>
    /\ cached = <<>> /\ repl = <<>> /\ todel = {} /\ passes = <<>>

\* process_all_tags with a CSVLoader whose load_참조 found no file.
InitUnloaded ==
    /\ mode = "str"
    /\ input \in SeqsUpTo(SubPieces, MaxLen - 3)
    /\ ctx = TagContext
    /\ tbl = <<>>
    /\ q = NoQuery
    /\ res = <<>>
    /\ chamjo_index_built = FALSE

Init ==
    /\ \/ (InitOC \/ InitSub \/ InitPgm \/ InitSebu \/ InitJoin) /\ LookupIdle
       \/ InitUnloaded
    /\ InitCommon /\ RunIdle /\ GuiIdle /\ PgmIdle /\ ScanIdle

\* ------------------------------------------------- process_all_tags (str)
str_output_control ==
    /\ mode = "str" /\ pc = "start"
    /\ text' = process_output_control_tags(text, ctx)
    /\ pc' = "sub"
    /\ passes' = Append(passes, "output_control")
    /\ UNCHANGED <<mode, rs, re, ctx, tbl, input, round, out1, cached, repl, todel, lookup_vars, run_vars, gui_vars, pgm_vars, scan_vars>>

str_substitution ==
    /\ mode = "str" /\ pc = "sub"
    /\ LET r == process_substitution_tags(text, tbl, ctx)
       IN  /\ text' = r.text
           /\ pc' = IF r.ok THEN "pgm" ELSE "raised"
    /\ passes' = Append(passes, "substitution")
    /\ UNCHANGED <<mode, rs, re, ctx, tbl, input, round, out1, cached, repl, todel, lookup_vars, run_vars, gui_vars, pgm_vars, scan_vars>>

str_pgm ==
    /\ mode = "str" /\ pc = "pgm"
    /\ LET r == process_pgm_tags(text, ctx)
       IN  /\ text' = r.text
           /\ pc' = IF r.ok THEN "done" ELSE "raised"
    /\ passes' = Append(passes, "computed")
    /\ UNCHANGED <<mode, rs, re, ctx, tbl, input, round, out1, cached, repl, todel, lookup_vars, run_vars, gui_vars, pgm_vars, scan_vars>>

\* ---------------------------------------------------- process_range (rng)
\* full_text = range_obj.Text; return when it holds no brace
range_begin ==
    /\ mode = "rng" /\ pc = "start"
    /\ cached' = Slice(text, rs, re)
    /\ pc' = IF HasBrace(Slice(text, rs, re)) THEN "r_oc" ELSE "done"
    /\ UNCHANGED <<mode, text, rs, re, ctx, tbl, input, round, out1, repl, todel, passes, lookup_vars, run_vars, gui_vars, pgm_vars, scan_vars>>

\* 1. _range_process_output_control_tags when has_output_tags, then the text
\* is read again
range_output_control ==
    /\ mode = "rng" /\ pc = "r_oc"
    /\ LET d == IF HasOutputTags(cached)
                THEN range_process_output_control_tags(Doc, ctx, cached)
                ELSE Doc
       IN  /\ text' = d.text
           /\ re' = d.re
           /\ cached' = RangeOf(d)
    /\ pc' = "r_sub"
    /\ passes' = Append(passes, "output_control")
    /\ UNCHANGED <<mode, rs, ctx, tbl, input, round, out1, repl, todel, lookup_vars, run_vars, gui_vars, pgm_vars, scan_vars>>

\* 2. _range_find_replace_tags: build the dict from the cached text
range_find_replace ==
    /\ mode = "rng" /\ pc = "r_sub"
    /\ repl' = build_replacement_dict(tbl, ctx, cached)
    /\ pc' = "r_rep"
    /\ UNCHANGED <<mode, text, rs, re, ctx, tbl, input, round, out1, cached, todel, passes, lookup_vars, run_vars, gui_vars, pgm_vars, scan_vars>>

\* "for find_text, replace_text in replacements.items()": one entry
range_replace_next ==
    /\ mode = "rng" /\ pc = "r_rep" /\ repl # <<>>
    /\ LET d == range_replace(Doc, Head(repl).tag, Head(repl).val)
       IN  /\ text' = d.text
           /\ re' = d.re
    /\ repl' = Tail(repl)
    /\ passes' = Append(passes, IF Head(repl).tag.t = "gigan" THEN "computed" ELSE "substitution")
    /\ UNCHANGED <<mode, pc, rs, ctx, tbl, input, round, out1, cached, todel, lookup_vars, run_vars, gui_vars, pgm_vars, scan_vars>>

\* 3. _range_cleanup_remaining_tags: the tags of the cached text
range_cleanup ==
    /\ mode = "rng" /\ pc = "r_rep" /\ repl = <<>>
    /\ todel' = IF HasBrace(cached) THEN tags_to_delete(cached) ELSE {}
    /\ pc' = "r_clean"
    /\ passes' = Append(passes, "cleanup")
    /\ UNCHANGED <<mode, text, rs, re, ctx, tbl, input, round, out1, cached, repl, lookup_vars, run_vars, gui_vars, pgm_vars, scan_vars>>

\* "for tag in tags_to_delete": a set, so in any order
range_cleanup_next ==
    /\ mode = "rng" /\ pc = "r_clean"
    /\ \E tag \in todel :
          LET d == replace_all(Doc, tag)
          IN  /\ text' = d.text
              /\ re' = d.re
              /\ todel' = todel \ {tag}
    /\ UNCHANGED <<mode, pc, rs, ctx, tbl, input, round, out1, cached, repl, passes, lookup_vars, run_vars, gui_vars, pgm_vars, scan_vars>>

range_end ==
    /\ mode = "rng" /\ pc = "r_clean" /\ todel = {}
    /\ pc' = "done"
    /\ UNCHANGED <<mode, text, rs, re, ctx, tbl, input, round, out1, cached, repl, todel, passes, lookup_vars, run_vars, gui_vars, pgm_vars, scan_vars>>

\* The caller expands the result once more, with the same context and table.
reinvoke ==
    /\ pc = "done" /\ round = 1
    /\ round' = 2
    /\ out1' = Result
    /\ pc' = "start"
    /\ passes' = <<>>
    /\ cached' = <<>>
    /\ UNCHANGED <<mode, text, rs, re, ctx, tbl, input, repl, todel, lookup_vars, run_vars, gui_vars, pgm_vars, scan_vars>>

Next ==
    \/ str_output_control
    \/ str_substitution
    \/ str_pgm
    \/ range_begin
    \/ range_output_control
    \/ range_find_replace
    \/ range_replace_next
    \/ range_cleanup
    \/ range_cleanup_next
    \/ range_end
    \/ reinvoke

Spec == Init /\ [][Next]_vars

\* --------------------------------------------- ReferenceLookup on its own
LookupLiterals == {Sub("danche", 1), Sub("danche", NoN)}

LookupRows ==
    {[kodeumyeong |-> l, sokseong |-> "danche", jeogyong |-> j, mungu |-> m] :
        l \in LookupLiterals, j \in {"", "0", "1"}, m \in {<<>>, <<P>>}}
    \cup {[kodeumyeong |-> Sub("danche", 1), sokseong |-> "gamaek", jeogyong |-> "1",
           mungu |-> <<Q>>]}

InitLookup ==
    /\ mode = "lookup"
    /\ pc = "start"
    /\ tbl \in SeqsUpTo(LookupRows, MaxRows)
    /\ \E g \in {0, 1} : ctx = [TagContext EXCEPT !.danche = g]
    /\ q \in [kodeumyeong : LookupLiterals, sokseong : {"danche", None},
              jeogyong : {"0", "1", None}]
    /\ res = <<>>
    /\ chamjo_index_built = TRUE
    /\ GuiIdle
    /\ PgmIdle
    /\ ScanIdle
    /\ ExpanderIdle
    /\ RunIdle

\* csv_loader.find_참조문구(코드명, 담보속성, 적용구분)
call_find_chamjomungu ==
    /\ mode = "lookup" /\ pc = "start"
    /\ res' = find_chamjomungu(tbl, q.kodeumyeong, q.sokseong, q.jeogyong)
    /\ pc' = "find"
    /\ UNCHANGED <<mode, ctx, tbl, q, chamjo_index_built, expander_vars, run_vars, gui_vars, pgm_vars, scan_vars>>

\* TagProcessor._lookup_참조(코드명, 담보속성, 적용구분)
call_lookup_chamjo ==
    /\ mode = "lookup" /\ pc = "start"
    /\ res' = lookup_chamjo(tbl, q.kodeumyeong, q.sokseong, q.jeogyong)
    /\ pc' = "lookup"
    /\ UNCHANGED <<mode, ctx, tbl, q, chamjo_index_built, expander_vars, run_vars, gui_vars, pgm_vars, scan_vars>>

\* TagProcessor._replace_단체(match, context) for the tag literal of the query
call_replace_danche ==
    /\ mode = "lookup" /\ pc = "start"
    /\ res' = replace_danche(tbl, q.kodeumyeong, ctx)
    /\ pc' = "danche"
    /\ UNCHANGED <<mode, ctx, tbl, q, chamjo_index_built, expander_vars, run_vars, gui_vars, pgm_vars, scan_vars>>

NextLookup ==
    \/ call_find_chamjomungu
    \/ call_lookup_chamjo
    \/ call_replace_danche

SpecLookup == InitLookup /\ [][NextLookup]_vars

\* ------------------------------------------------- find_대표담보코드
\* tbl is 담보매핑_data: per row its 담보코드, a string of characters.  q is
\* the 담보코드 asked for; res is the row returned, <<r>> for row r of
\* the table and <<>> for the empty dict.
MaxMapRows == 3

Code7 == <<"1", "2", "3", "4", "5", "6", "7">>

DamboCodes ==
    {Code7, <<"A">> \o Code7, <<"B">> \o Code7,
     <<"7", "6", "5", "4", "3", "2", "1">>, <<"1", "2">>}

\* row_담보코드[-7:] of a code of 7 characters or more
Suffix7(code) == SubSeq(code, Len(code) - 6, Len(code))

\* _build_담보매핑_index: _담보매핑_exact and _담보매핑_suffix7 keep the
\* first row of a code and of a suffix; rows without a code are left out
dambo_mapping_exact(data, key) ==
    SelectSeq([r \in 1..Len(data) |-> r], LAMBDA r : data[r] # <<>> /\ data[r] = key)

dambo_mapping_suffix7(data, suffix) ==
    SelectSeq([r \in 1..Len(data) |-> r],
              LAMBDA r : Len(data[r]) >= 7 /\ Suffix7(data[r]) = suffix)

\* CSVLoader.find_대표담보코드 (Insurance_Terms_AutoGen)
find_daepyo_dambo_code(data, key) ==
    IF dambo_mapping_exact(data, key) # <<>> THEN <<dambo_mapping_exact(data, key)[1]>>
    ELSE IF Len(key) >= 7 /\ dambo_mapping_suffix7(data, Suffix7(key)) # <<>>
    THEN <<dambo_mapping_suffix7(data, Suffix7(key))[1]>>
    ELSE <<>>

\* CSVLoader.find_대표담보코드 (Insurance_Terms_AutoGen_260209): one pass
\* over the rows, each row tested for equality and then for the suffix
find_daepyo_dambo_code_scan(data, key) ==
    LET hits == SelectSeq([r \in 1..Len(data) |-> r],
                    LAMBDA r : \/ data[r] = key
                               \/ /\ Len(data[r]) >= 7 /\ Len(key) >= 7
                                  /\ Suffix7(data[r]) = Suffix7(key))
    IN  IF hits # <<>> THEN <<hits[1]>> ELSE <<>>

InitFind ==
    /\ mode = "find"
    /\ pc = "start"
    /\ tbl \in SeqsUpTo(DamboCodes \cup {<<>>}, MaxMapRows)
    /\ q \in DamboCodes
    /\ res = <<>>
    /\ chamjo_index_built = TRUE
    /\ ctx = TagContext
    /\ GuiIdle
    /\ PgmIdle
    /\ ScanIdle
    /\ ExpanderIdle
    /\ RunIdle

call_find_daepyo_dambo_code ==
    /\ mode = "find" /\ pc = "start"
    /\ res' = find_daepyo_dambo_code(tbl, q)
    /\ pc' = "done"
    /\ UNCHANGED <<mode, ctx, tbl, q, chamjo_index_built, expander_vars, run_vars, gui_vars, pgm_vars, scan_vars>>

call_find_daepyo_dambo_code_scan ==
    /\ mode = "find" /\ pc = "start"
    /\ res' = find_daepyo_dambo_code_scan(tbl, q)
    /\ pc' = "done_260209"
    /\ UNCHANGED <<mode, ctx, tbl, q, chamjo_index_built, expander_vars, run_vars, gui_vars, pgm_vars, scan_vars>>

NextFind ==
    \/ call_find_daepyo_dambo_code
    \/ call_find_daepyo_dambo_code_scan

SpecFind == InitFind /\ [][NextFind]_vars

\* ------------------------------------------------- _format_기간 alone
\* q is the number of days, res the string returned.
InitFormat ==
    /\ mode = "format"
    /\ pc = "start"
    /\ q \in 0..MaxDays
    /\ res = <<>>
    /\ chamjo_index_built = TRUE
    /\ ctx = TagContext
    /\ tbl = <<>>
    /\ GuiIdle
    /\ PgmIdle
    /\ ScanIdle
    /\ ExpanderIdle
    /\ RunIdle

call_format_gigan ==
    /\ mode = "format" /\ pc = "start"
    /\ res' = format_gigan(q)
    /\ pc' = "done"
    /\ UNCHANGED <<mode, ctx, tbl, q, chamjo_index_built, expander_vars, run_vars, gui_vars, pgm_vars, scan_vars>>

NextFormat == call_format_gigan

SpecFormat == InitFormat /\ [][NextFormat]_vars

\* ------------------------------------------------- _replace_지급률 alone
\* A rate tag with what follows it in the text: the ordinal K, the operator,
\* the operand as written (xs) and as a number (x), and the percent sign.
RateOperands ==
    {[xs |-> <<Ch("0")>>, x |-> Rat(0, 1)],
     [xs |-> <<Ch("2")>>, x |-> Rat(2, 1)],
     [xs |-> <<Ch("3")>>, x |-> Rat(3, 1)],
     [xs |-> <<Ch("2"), Ch("2")>>, x |-> Rat(22, 1)],
     [xs |-> <<Ch("2"), Ch(".")>>, x |-> Rat(2, 1)],
     [xs |-> <<Ch("2"), Ch("."), Ch("5")>>, x |-> Rat(25, 10)]}

RateCases ==
    {[k |-> k, operator |-> None, xs |-> <<>>, x |-> Rat(1, 1), percent |-> p] :
        k \in {1, 2}, p \in BOOLEAN}
    \cup {[k |-> k, operator |-> o, xs |-> d.xs, x |-> d.x, percent |-> p] :
        k \in {1, 2}, o \in {"*", "/"}, d \in RateOperands, p \in BOOLEAN}

RateText(rc) ==
    <<Jigeup(1, 1, rc.k)>>
        \o (IF rc.operator = None THEN <<>> ELSE <<Ch(rc.operator)>>)
        \o rc.xs
        \o (IF rc.percent THEN <<Ch("%")>> ELSE <<>>)

\* 지급률 lists of the first sub-coverage, in stored order
RateLists ==
    {<<Rat(50, 1), Rat(100, 1)>>, <<Rat(100, 1), Rat(50, 1)>>,
     <<Rat(75, 1), Rat(25, 2)>>, <<Rat(10, 1), Rat(35, 1)>>}

InitRate ==
    /\ mode = "rate"
    /\ pc = "start"
    /\ \E rc \in RateCases : input = RateText(rc)
    /\ \E l \in RateLists :
           ctx = [TagContext EXCEPT !.daepyo_list = <<"D1">>,
                                    !.jigeupryul_data = [x \in {"D1"} |-> <<l>>]]
    /\ text = input
    /\ rs = 0 /\ re = 0 /\ round = 1 /\ out1 = <<>>
    /\ cached = <<>> /\ repl = <<>> /\ todel = {} /\ passes = <<>>
    /\ tbl = <<>>
    /\ LookupIdle
    /\ RunIdle
    /\ GuiIdle
    /\ PgmIdle
    /\ ScanIdle

\* _process_pgm_tags on the text: re.sub with the 지급률 pattern
call_process_pgm_tags ==
    /\ mode = "rate" /\ pc = "start"
    /\ LET r == process_pgm_tags(text, ctx)
       IN  /\ text' = r.text
           /\ pc' = IF r.ok THEN "done" ELSE "raised"
    /\ UNCHANGED <<mode, rs, re, ctx, tbl, input, round, out1, cached, repl, todel, passes,
                   lookup_vars, run_vars, gui_vars, pgm_vars, scan_vars>>

NextRate == call_process_pgm_tags

SpecRate == InitRate /\ [][NextRate]_vars

\* ------------------------------------------------- PrintDambo.execute
\* A comment of the source document: the 대표담보코드 it lists and the text
\* of its paragraph (특별약관명).  The content of a rider runs from its
\* comment's paragraph to the next comment's paragraph.
Labels == {"L1", "L2"}
Categories == {"s1", "s2"}
\* paras: the lengths, in characters with the paragraph mark, of the
\* paragraphs from the comment's paragraph to the next comment's paragraph.
SourceComments ==
    {[codes |-> {"A"}, teukyak_myeong |-> "L1", paras |-> <<8, 8>>],
     [codes |-> {"B"}, teukyak_myeong |-> "L1", paras |-> <<3>>],
     [codes |-> {"A", "B"}, teukyak_myeong |-> "L2", paras |-> <<8>>],
     [codes |-> {"C"}, teukyak_myeong |-> "L2", paras |-> <<3, 8>>]}

\* A row of the worklist (담보목록).  cells_numeric: every cell execute hands
\* to int() (면책, 감액, 연장형, 진단확정, 부모, 예약가입연령) is empty or a
\* number; the cells themselves are empty, so the attributes read 0.
Coverages ==
    {[daepyo |-> "A", category |-> "s1", dambo_code |-> "d1", cells_numeric |-> TRUE],
     [daepyo |-> "B", category |-> "s1", dambo_code |-> "d2", cells_numeric |-> TRUE],
     [daepyo |-> "B", category |-> "s2", dambo_code |-> "d1", cells_numeric |-> TRUE],
     [daepyo |-> "C", category |-> "s1", dambo_code |-> "d0", cells_numeric |-> TRUE],
     [daepyo |-> "A", category |-> "s2", dambo_code |-> "d0", cells_numeric |-> FALSE]}

\* _build_comment_caches: self._source_comment_cache[code][source_type] =
\* (para_start, copy_end, 특별약관명); a later comment of the same code
\* overwrites an earlier one; the last comment has copy_end = para_start.
\* Positions are comment indexes.  One source document, of type "s1".
source_comment_cache(comments, code) ==
    LET hits == {j \in 1..Len(comments) : code \in comments[j].codes}
    IN  IF hits = {} THEN <<>>
        ELSE LET j == CHOOSE h \in hits : \A g \in hits : g <= h
             IN  <<[source_type |-> "s1",
                    copy_start |-> j,
                    copy_end |-> IF j + 1 <= Len(comments) THEN j + 1 ELSE j,
                    teukyak_myeong |-> comments[j].teukyak_myeong]>>

\* "source_info = cache_entry.get(dambo_category)", else the first value
source_info(comments, coverage) ==
    LET cache_entry == source_comment_cache(comments, coverage.daepyo)
        own == {j \in 1..Len(cache_entry) : cache_entry[j].source_type = coverage.category}
    IN  IF own # {} THEN <<cache_entry[CHOOSE j \in own : TRUE]>>
        ELSE IF cache_entry # <<>> THEN <<cache_entry[1]>>
        ELSE <<>>

\* A run that keeps no record of the labels it copied.
never_copied(teukyak_myeong, copied) == FALSE

\* "if 특별약관명 in self.copied_list_strings"
already_copied(teukyak_myeong, copied) == teukyak_myeong \in copied

\* ------------------------------------------------ the target document
\* The target document is a sequence of paragraphs.  kind: "heading" (the
\* paragraph a section comment is attached to), "body", "pasted", "blank"
\* (a bare paragraph mark);  of: the category of a heading or body, the
\* label of a pasted paragraph;  by: the loop index that pasted it;  len:
\* characters with the paragraph mark;  marker: the text holds one of
\* "관련 특별약관", "제도성 특별약관", "별표".
Heading(c, m) == [kind |-> "heading", of |-> c, by |-> -1, len |-> 8, marker |-> m]
Body(c) == [kind |-> "body", of |-> c, by |-> -1, len |-> 8, marker |-> FALSE]
Blank == [kind |-> "blank", of |-> "", by |-> -1, len |-> 1, marker |-> FALSE]
Pasted(x, i, n) == [kind |-> "pasted", of |-> x, by |-> i, len |-> n, marker |-> FALSE]

TargetDocs ==
    {<<Body("")>>,
     <<Heading("s1", TRUE), Body("s1")>>,
     <<Body(""), Heading("s1", TRUE), Body("s1"), Heading("s2", TRUE), Body("s2")>>,
     <<Heading("s2", TRUE), Body("s2"), Heading("s1", TRUE), Body("s1")>>,
     <<Heading("s1", FALSE), Body("s1"), Heading("s2", FALSE), Body("s2")>>}

\* Range.Start of the k-th paragraph;  Pos(doc, Len(doc) + 1) is Content.End
RECURSIVE Pos(_, _)
Pos(doc, k) == IF k <= 1 THEN 0 ELSE Pos(doc, k - 1) + doc[k - 1].len

\* the paragraph that holds position p
ParaAt(doc, p) == CHOOSE k \in 1..Len(doc) : Pos(doc, k) <= p /\ p < Pos(doc, k + 1)

\* comment_obj.Scope.Paragraphs(1): the heading the comment is attached to
HeadingAt(doc, c) == CHOOSE k \in 1..Len(doc) : doc[k].kind = "heading" /\ doc[k].of = c

\* self._target_comment_objects: the comments of the target document, in
\* document order; every comment names a section ("<category>관련 특별약관").
TargetComments(doc) ==
    LET hs == SelectSeq(doc, LAMBDA p : p.kind = "heading")
    IN  [j \in 1..Len(hs) |-> hs[j].of]

\* _find_paste_location: Range(section start, next section start - 1), or
\* the collapsed Range(section start, section start) when no section
\* comment follows; <<>> is None.
find_paste_location(doc, comments, category) ==
    LET hits == {i \in 1..Len(comments) : comments[i] = category}
    IN  IF hits = {} THEN <<>>
        ELSE LET i == CHOOSE h \in hits : \A g \in hits : h <= g
                 section_start_pos == Pos(doc, HeadingAt(doc, comments[i]))
             IN  IF i + 1 <= Len(comments)
                 THEN <<[start |-> section_start_pos,
                         end |-> Pos(doc, HeadingAt(doc, comments[i + 1])) - 1]>>
                 ELSE <<[start |-> section_start_pos, end |-> section_start_pos]>>

\* paste_range.InsertAfter("\r"): a paragraph mark at position p
InsertAfter(doc, p) ==
    LET k == ParaAt(doc, p)
        o == p - Pos(doc, k)
        first == IF o = 0 THEN Blank ELSE [doc[k] EXCEPT !.len = o + 1]
        second == IF o = 0 THEN doc[k]
                  ELSE IF doc[k].len - o = 1 THEN Blank
                  ELSE [doc[k] EXCEPT !.len = @ - o]
    IN  SubSeq(doc, 1, k - 1) \o <<first, second>> \o SubSeq(doc, k + 1, Len(doc))

\* paste_range.FormattedText = copy_range.FormattedText, at a paragraph start
InsertParas(doc, p, paras) ==
    LET k == ParaAt(doc, p)
    IN  SubSeq(doc, 1, k - 1) \o paras \o SubSeq(doc, k, Len(doc))

RECURSIVE SumLen(_)
SumLen(paras) == IF paras = <<>> THEN 0 ELSE Head(paras).len + SumLen(Tail(paras))

\* _recalculate_paste_range_end: Find runs forward from start_pos; the
\* paragraph of the first marker found ends the range when it starts after
\* start_pos, else the range runs to Content.End.
recalculate_paste_range_end(doc, start_pos) ==
    LET found == {k \in 1..Len(doc) : doc[k].marker /\ Pos(doc, k + 1) > start_pos}
    IN  IF found = {} THEN [start |-> start_pos, end |-> Pos(doc, Len(doc) + 1)]
        ELSE LET k == CHOOSE h \in found : \A g \in found : h <= g
             IN  IF Pos(doc, k) > start_pos
                 THEN [start |-> start_pos, end |-> Pos(doc, k)]
                 ELSE [start |-> start_pos, end |-> Pos(doc, Len(doc) + 1)]

\* _copy_terms from the insertion on.  expanded: whether paste_range grew
\* over the pasted text when FormattedText was assigned.
paste_terms(doc, paste_range, paras, expanded) ==
    LET doc1 == InsertAfter(doc, paste_range.end)
        start_pos == paste_range.end + 1
        doc2 == InsertParas(doc1, start_pos, paras)
        end_pos0 == IF expanded THEN start_pos + SumLen(paras) ELSE start_pos
        end_pos == IF end_pos0 <= start_pos
                   THEN Pos(doc2, ParaAt(doc2, start_pos) + 1)
                   ELSE end_pos0
    IN  [doc |-> doc2,
         range |-> IF end_pos <= start_pos + 5
                   THEN <<recalculate_paste_range_end(doc2, start_pos)>>
                   ELSE <<[start |-> start_pos, end |-> end_pos]>>]

\* _copy_terms: what it leaves in copied_list_strings and in the target
\* document, and the range it returns (<<>> is None)
copy_terms(doc, comments, source, copied, coverage, i, expanded) ==
    LET info == source_info(source, coverage)
        none == [copied |-> copied, doc |-> doc, range |-> <<>>]
    IN  IF info = <<>> THEN none
        ELSE IF already_copied(info[1].teukyak_myeong, copied) THEN none
        ELSE LET added == [none EXCEPT !.copied = copied \cup {info[1].teukyak_myeong}]
                 paste_range == find_paste_location(doc, comments, coverage.category)
             IN  IF info[1].copy_start >= info[1].copy_end THEN added
                 ELSE IF paste_range = <<>> THEN added
                 ELSE LET src == source[info[1].copy_start]
                          paras == [j \in 1..Len(src.paras) |->
                                       Pasted(src.teukyak_myeong, i, src.paras[j])]
                          r == paste_terms(doc, paste_range[1], paras, expanded)
                      IN  [copied |-> added.copied, doc |-> r.doc, range |-> r.range]

\* ------------------------------------------------------- the PGM tables
\* arr_pgm_main: per row the 담보코드 (column 1) and the 보장구조 lookup key
\* the row leads to.  Row 0 is the title row.  Code "d0" has no row.
arr_pgm_main ==
    [r \in 0..2 |-> IF r = 1 THEN [dambo_code |-> "d1", key |-> "k1"]
                    ELSE IF r = 2 THEN [dambo_code |-> "d2", key |-> "k2"]
                    ELSE [dambo_code |-> "", key |-> ""]]

\* self.data.pgm_main_index_col1: code -> the rows that carry it, in order
pgm_main_index_col1(dambo_code) ==
    SelectSeq(<<0, 1, 2>>, LAMBDA r : arr_pgm_main[r].dambo_code = dambo_code)

\* arr_보장구조: the lookup key, the 세부담보순번 and the 보장배수 key of a row
arr_bojang_gujo ==
    [r \in 0..3 |-> IF r = 0 THEN [key |-> "k1", sunbeon |-> 0, baesu |-> ""]
                    ELSE IF r = 1 THEN [key |-> "k1", sunbeon |-> 1, baesu |-> "b1"]
                    ELSE IF r = 2 THEN [key |-> "k1", sunbeon |-> 2, baesu |-> "b2"]
                    ELSE [key |-> "k2", sunbeon |-> 0, baesu |-> ""]]

\* self.data.보장구조_index: key -> the rows that carry it, in order
bojang_gujo_index(key) ==
    SelectSeq(<<0, 1, 2, 3>>, LAMBDA r : arr_bojang_gujo[r].key = key)

\* "[0] + list(bencoef_row)" by column (loc_면책기간, loc_감액기간,
\* loc_감액기간2, loc_감액비율2, loc_지급률).  ZeroRow stands for the short
\* row "[0]" too: a column past its end and a column that holds 0 are
\* treated alike wherever a row is read.
ZeroRow ==
    [myeonchaek_gigan |-> 0, gamaek_gigan |-> 0, gamaek_gigan2 |-> 0,
     gamaek_biyul2 |-> 0, jigeupryul |-> 0]

\* get_array_row(arr_보장배수, key, 0)
arr_bojang_baesu(key) ==
    IF key = "b1"
    THEN [myeonchaek_gigan |-> 90, gamaek_gigan |-> 365, gamaek_gigan2 |-> 730,
          gamaek_biyul2 |-> 50, jigeupryul |-> 50]
    ELSE IF key = "b2"
    THEN [ZeroRow EXCEPT !.gamaek_gigan = 180]
    ELSE ZeroRow

\* "for index_lookup in matching_rows": 세부담보개수 and min_riskrate_row
RECURSIVE count_sebu(_, _)
count_sebu(self, rows) ==
    IF rows = <<>> THEN self
    ELSE IF self.sebu_gaesu <= 0 \/ arr_bojang_gujo[Head(rows)].sunbeon > self.sebu_gaesu
    THEN LET n == self.sebu_gaesu + 1
         IN  count_sebu([self EXCEPT !.sebu_gaesu = n,
                                     !.min_riskrate_row =
                                         IF n = 0 THEN Head(rows) ELSE @],
                        Tail(rows))
    ELSE self

\* "for i in range(self.세부담보개수)": the rows after min_riskrate_row
bencoef_rows(self) ==
    [i \in 1..self.sebu_gaesu |->
        IF self.min_riskrate_row + i <= 3
        THEN arr_bojang_baesu(arr_bojang_gujo[self.min_riskrate_row + i].baesu)
        ELSE ZeroRow]

RECURSIVE SumOf(_, _, _)
SumOf(rows, n, col) ==
    IF n = 0 THEN 0
    ELSE SumOf(rows, n - 1, col) + (IF col = "myeonchaek_gigan" THEN rows[n].myeonchaek_gigan
                                    ELSE rows[n].gamaek_gigan)

\* _read_pgm_loop, on the PrintDambo object
read_pgm_loop(self, dambo_code) ==
    LET s0 == [self EXCEPT !.m_point = 0, !.sebu_gaesu = -1,
                           !.is_gamaek_dubeon = FALSE, !.min_riskrate_row = 0]
        candidates == pgm_main_index_col1(dambo_code)
        s1 == IF candidates # <<>> THEN [s0 EXCEPT !.m_point = candidates[1]] ELSE s0
    IN  IF s1.m_point = 0 THEN s1
        ELSE LET s2 == count_sebu(s1, bojang_gujo_index(arr_pgm_main[s1.m_point].key))
                 s3 == IF s2.sebu_gaesu > 0
                       THEN [s2 EXCEPT !.sebu_bencoef = bencoef_rows(s2)]
                       ELSE s2
                 n == IF s3.sebu_gaesu > 0 THEN s3.sebu_gaesu ELSE 0
             IN  [s3 EXCEPT !.sum_myeonchaek = SumOf(s3.sebu_bencoef, n, "myeonchaek_gigan"),
                            !.sum_gamaek = SumOf(s3.sebu_bencoef, n, "gamaek_gigan"),
                            !.is_gamaek_dubeon =
                                \E i \in 1..n : /\ s3.sebu_bencoef[i].gamaek_gigan2 > 0
                                                /\ s3.sebu_bencoef[i].gamaek_biyul2 > 0]

\* create_tag_context_from_dambo_att: the attributes execute read from the
\* worklist row (all 0 here) and the 대표담보코드 list
create_tag_context_from_dambo_att(coverage) ==
    [TagContext EXCEPT !.daepyo_list = IF coverage.daepyo # "" THEN <<coverage.daepyo>> ELSE <<>>]

\* "Build 감액기간 list from PGM": per row the non-zero periods, rows
\* without one left out
RECURSIVE gamaek_gigan_lists(_)
gamaek_gigan_lists(rows) ==
    IF rows = <<>> THEN <<>>
    ELSE LET b == Head(rows)
             gigan_list == (IF b.gamaek_gigan # 0 THEN <<b.gamaek_gigan>> ELSE <<>>)
                               \o (IF b.gamaek_gigan2 # 0 THEN <<b.gamaek_gigan2>> ELSE <<>>)
         IN  (IF gigan_list # <<>> THEN <<gigan_list>> ELSE <<>>)
                 \o gamaek_gigan_lists(Tail(rows))

\* the context _revise_terms hands to process_range (자동갱신형 = 0 and
\* 독립특약 = 0 in the product settings)
revise_context(self, coverage) ==
    LET context == create_tag_context_from_dambo_att(coverage)
    IN  [context EXCEPT
            !.myeonchaek = IF self.sum_myeonchaek > 0 THEN 1 ELSE 0,
            !.gamaek = IF self.sum_gamaek > 0 THEN 1 ELSE 0,
            !.gamaek_hanbeon = ~self.is_gamaek_dubeon,
            !.gamaek_dubeon = self.is_gamaek_dubeon,
            !.dokrip = 0,
            !.bigaengsin = 1,
            !.gamaek_gigan_list = gamaek_gigan_lists(self.sebu_bencoef),
            !.jigeupryul_data =
                IF self.sebu_bencoef # <<>> /\ coverage.daepyo # ""
                THEN [x \in {coverage.daepyo} |->
                        [i \in 1..Len(self.sebu_bencoef) |->
                            IF self.sebu_bencoef[i].jigeupryul # 0
                            THEN <<Rat(self.sebu_bencoef[i].jigeupryul, 1)>>
                            ELSE <<Rat(100, 1)>>]]
                ELSE @]

InitRun ==
    /\ mode = "run"
    /\ pc = "loop"
    /\ coverage_list \in SeqsUpTo(Coverages, MaxCoverages)
    /\ loop_i = 0
    /\ source_doc \in [1..MaxCoverages -> SourceComments]
    /\ target_doc \in TargetDocs
    /\ target_comment_objects = TargetComments(target_doc)
    /\ copied_list_strings = {}
    /\ print_dambo = InitPrintDambo
    /\ target_range = <<>>
    /\ revised = {}
    /\ ctx = TagContext
    /\ tbl = <<>>
    /\ GuiIdle
    /\ PgmIdle
    /\ ScanIdle
    /\ ExpanderIdle
    /\ LookupIdle

\* One pass of the main loop of execute: the attributes of the row,
\* _read_pgm_loop, _copy_terms, then _revise_terms on the range that
\* _copy_terms returned.  process_range edits the text inside that range
\* only (specification Spec); the paragraphs here keep their lengths.
\* A cell int() cannot read raises ValueError, which only the except of
\* execute catches: the run logs the error and returns.
execute_iteration ==
    /\ mode = "run" /\ pc = "loop"
    /\ loop_i < Len(coverage_list)
    /\ LET coverage == coverage_list[loop_i + 1]
       IN  IF ~coverage.cells_numeric
           THEN /\ pc' = "aborted"
                /\ UNCHANGED <<ctx, loop_i, copied_list_strings, target_doc, print_dambo,
                               target_range, revised>>
           ELSE \E expanded \in BOOLEAN :
                LET self == read_pgm_loop(print_dambo, coverage.dambo_code)
                    r == copy_terms(target_doc, target_comment_objects, source_doc,
                                    copied_list_strings, coverage, loop_i, expanded)
                IN  /\ print_dambo' = self
                    /\ copied_list_strings' = r.copied
                    /\ target_doc' = r.doc
                    /\ target_range' = r.range
                    /\ IF r.range # <<>>
                       THEN /\ ctx' = revise_context(self, coverage)
                            /\ revised' = revised \cup {loop_i}
                       ELSE UNCHANGED <<ctx, revised>>
                    /\ loop_i' = loop_i + 1
                    /\ pc' = pc
    /\ UNCHANGED <<mode, tbl, coverage_list, source_doc, target_comment_objects,
                   expander_vars, lookup_vars, gui_vars, pgm_vars, scan_vars>>

\* The loop is over: the document is saved.
execute_finish ==
    /\ mode = "run" /\ pc = "loop"
    /\ loop_i = Len(coverage_list)
    /\ pc' = "saved"
    /\ UNCHANGED <<mode, ctx, tbl, expander_vars, lookup_vars, run_vars, gui_vars, pgm_vars, scan_vars>>

NextRun ==
    \/ execute_iteration
    \/ execute_finish

SpecRun == InitRun /\ [][NextRun]_vars

\* ------------------------------------------------- _read_pgm_loop alone
\* arr_gujo is arr_보장구조 and arr_mapping is arr_담보매핑, as sequences:
\* row r of the array is entry r + 1.  A row of arr_보장구조 holds the lookup
\* key, the 세부담보순번, the 세부담보코드 and the 보장배수 key; the 보장배수
\* key is "b1" for code c1, "b2" for c2 and names no row for c3.
MaxGujoRows == 3

BaesuOf(code) == IF code = "c1" THEN "b1" ELSE IF code = "c2" THEN "b2" ELSE ""

GujoRows ==
    {[key |-> k, sunbeon |-> o, code |-> c, baesu |-> BaesuOf(c)] :
        k \in {"k1", "k2"}, o \in 0..3, c \in {"c1", "c2", "c3"}}

\* arr_담보매핑: 담보코드 (column 2) and 담보명 (column 3)
MappingTables ==
    {<<>>,
     <<[code |-> "c1", name |-> "N1"], [code |-> "c2", name |-> "N2"],
       [code |-> "c3", name |-> "N3"]>>,
     <<[code |-> "c1", name |-> ""], [code |-> "c3", name |-> "N3"]>>,
     <<[code |-> "c2", name |-> "N2"], [code |-> "c2", name |-> "X"]>>}

\* self.data.보장구조_index.get(key, []): the rows that carry the key, in
\* the order of the array
gujo_index(arr, key) ==
    SelectSeq([r \in 1..Len(arr) |-> r], LAMBDA r : arr[r].key = key)

\* "for index_lookup in matching_rows": 세부담보개수, min_riskrate_row and
\* 세부담보코드List
RECURSIVE scan_matching_rows(_, _, _)
scan_matching_rows(arr, self, matching_rows) ==
    IF matching_rows = <<>> THEN self
    ELSE LET index_lookup == Head(matching_rows)
         IN  IF self.sebu_gaesu <= 0 \/ arr[index_lookup].sunbeon > self.sebu_gaesu
             THEN LET n == self.sebu_gaesu + 1
                  IN  scan_matching_rows(arr,
                          [self EXCEPT !.sebu_gaesu = n,
                                       !.min_riskrate_row = IF n = 0 THEN index_lookup ELSE @,
                                       !.sebu_code_list = Append(@, arr[index_lookup].code)],
                          Tail(matching_rows))
             ELSE self

\* "for i in range(self.세부담보개수)": arr_구조[min_riskrate_row + i + 1]
bencoef_from(arr, self) ==
    [i \in 1..self.sebu_gaesu |->
        IF self.min_riskrate_row + i <= Len(arr)
        THEN arr_bojang_baesu(arr[self.min_riskrate_row + i].baesu)
        ELSE ZeroRow]

\* get_array_row(arr_mapping, sembo_code, 2): the first row with the code
sembo_name(mapping, sembo_code) ==
    LET rows == SelectSeq(mapping, LAMBDA row : row.code = sembo_code)
    IN  IF rows # <<>> /\ rows[1].name # "" THEN rows[1].name ELSE sembo_code

InitPgmLoop ==
    /\ mode = "pgm"
    /\ pc = "start"
    /\ arr_gujo \in SeqsUpTo(GujoRows, MaxGujoRows)
    /\ arr_mapping \in MappingTables
    /\ pgm_self = InitPrintDambo
    /\ sebubojangmyeong_list = <<>>
    /\ ctx = TagContext
    /\ tbl = <<>>
    /\ ExpanderIdle
    /\ LookupIdle
    /\ RunIdle
    /\ GuiIdle
    /\ ScanIdle

\* _read_pgm_loop("d1", dambo_att, 0) on a new PrintDambo: the anchor row of
\* d1 is row 1 of arr_pgm_main and leads to the lookup key "k1".
call_read_pgm_loop ==
    /\ mode = "pgm" /\ pc = "start"
    /\ LET candidates == pgm_main_index_col1("d1")
           m_point == candidates[1]
           s0 == [m_point |-> m_point, sebu_gaesu |-> -1, min_riskrate_row |-> 1,
                  sebu_code_list |-> <<>>, sebu_bencoef |-> pgm_self.sebu_bencoef,
                  is_gamaek_dubeon |-> FALSE, sum_myeonchaek |-> 0, sum_gamaek |-> 0]
           s1 == scan_matching_rows(arr_gujo, s0,
                                    gujo_index(arr_gujo, arr_pgm_main[m_point].key))
           s2 == IF s1.sebu_gaesu > 0
                 THEN [s1 EXCEPT !.sebu_bencoef = bencoef_from(arr_gujo, s1)]
                 ELSE s1
           n == IF s2.sebu_gaesu > 0 THEN s2.sebu_gaesu ELSE 0
       IN  /\ pgm_self' =
                [s2 EXCEPT !.sum_myeonchaek = SumOf(s2.sebu_bencoef, n, "myeonchaek_gigan"),
                           !.sum_gamaek = SumOf(s2.sebu_bencoef, n, "gamaek_gigan"),
                           !.is_gamaek_dubeon =
                               \E i \in 1..n : /\ s2.sebu_bencoef[i].gamaek_gigan2 > 0
                                               /\ s2.sebu_bencoef[i].gamaek_biyul2 > 0]
           /\ sebubojangmyeong_list' =
                IF s2.sebu_code_list # <<>>
                THEN [j \in 1..Len(s2.sebu_code_list) |->
                         sembo_name(arr_mapping, s2.sebu_code_list[j])]
                ELSE sebubojangmyeong_list
    /\ pc' = "done"
    /\ UNCHANGED <<mode, ctx, tbl, arr_gujo, arr_mapping,
                   expander_vars, lookup_vars, run_vars, gui_vars, scan_vars>>

NextPgmLoop == call_read_pgm_loop

SpecPgmLoop == InitPgmLoop /\ [][NextPgmLoop]_vars

\* ------------------------------- _process_single_output_tag, step by step
\* One pass of the body of "while i < len(matches) - 1" is one step: text
\* is the local text, scan_i the index i, iterations the passes made.
MaxScanLen == 4

ScanPattern == output_control_patterns[1]

\* Texts with paired, unpaired and nested 면책 markers, and with the halves
\* of a marker that a deletion can join.
ScanPieces ==
    {Ch("a"), OC("myeonchaek", 0, 1), OC("myeonchaek", 0, 2), OC("myeonchaek", 0, 3),
     LeftOf(CutTag), RightOf(CutTag)}

\* matches = list(regex.finditer(text))
scan_matches(t, pat) ==
    FindAll(t, {g \in {OccTag(t, j) : j \in 1..Len(t)} : OCMatches(pat, g)})

\* "i = 0  # Reset index" after a processed pair, "i += 1" otherwise.
next_scan_index_stays(processed, i) == IF processed THEN 0 ELSE i

next_scan_index(processed, i) == IF processed THEN 0 ELSE i + 1

InitScan ==
    /\ mode = "scan"
    /\ pc = "start"
    /\ input \in SeqsUpTo(ScanPieces, MaxScanLen)
    /\ \E g \in {0, 1} : ctx = [TagContext EXCEPT !.myeonchaek = g]
    /\ text = input
    /\ rs = 0 /\ re = 0 /\ round = 1 /\ out1 = <<>>
    /\ cached = <<>> /\ repl = <<>> /\ todel = {} /\ passes = <<>>
    /\ tbl = <<>>
    /\ scan_i = 0
    /\ iterations = 0
    /\ LookupIdle
    /\ RunIdle
    /\ GuiIdle
    /\ PgmIdle

\* one pass of the loop body
scan_iteration ==
    /\ mode = "scan" /\ pc = "start"
    /\ LET matches == scan_matches(text, ScanPattern)
       IN  /\ scan_i < Len(matches) - 1
           /\ LET p1 == matches[scan_i + 1]
                  p2 == matches[scan_i + 2]
                  k1 == OccTag(text, p1).k
                  k2 == OccTag(text, p2).k
                  attr_value == get_attribute_value(ScanPattern.attr, 1, ctx)
                  tagsOnly == IF k1 \in {1, 2} THEN attr_value ELSE ~attr_value
              IN  /\ text' = IF ~ValidPair(k1, k2) THEN text
                             ELSE IF tagsOnly THEN DeleteTagsOnly(text, p1, p2)
                             ELSE DeleteTagsAndContent(text, p1, p2)
                  /\ scan_i' = next_scan_index(ValidPair(k1, k2), scan_i)
    /\ iterations' = iterations + 1
    /\ UNCHANGED <<mode, pc, rs, re, ctx, tbl, input, round, out1, cached, repl, todel, passes,
                   lookup_vars, run_vars, gui_vars, pgm_vars>>

\* "return text": no match, or the loop condition is false
scan_return ==
    /\ mode = "scan" /\ pc = "start"
    /\ scan_i >= Len(scan_matches(text, ScanPattern)) - 1
    /\ pc' = "done"
    /\ UNCHANGED <<mode, text, rs, re, ctx, tbl, input, round, out1, cached, repl, todel,
                   passes, lookup_vars, run_vars, gui_vars, pgm_vars, scan_vars>>

NextScan ==
    \/ scan_iteration
    \/ scan_return

\* The function runs to its return: no other thread shares its state.
SpecScan == InitScan /\ [][NextScan]_vars /\ WF_vars(NextScan)

\* ------------------------------------------------- MainWindow (GUI thread)
\* run_print_dambo is the slot of btn_print.clicked.  It runs on the GUI
\* thread; every self.log in it calls QApplication.processEvents(), which
\* dispatches the events that are pending, a click on btn_print included.
\* The slot disables the buttons in its last statement, after worker.start().
\*
\* A frame of the stack is one activation of run_print_dambo: "begin" (in
\* the part that logs, loads the template and the PGM data) or "loaded"
\* (at "self.worker = WorkerThread(run_task)").  A log signal of a worker
\* is handled like the events of the idle event loop: what processEvents
\* dispatches under it is what the loop would dispatch next.
\*
\* A worker runs PrintDambo.execute: "start", then "loop" (target document
\* opened, i coverages done), then "done".  documents: the documents of the
\* Word application every WordHandler attaches to (GetObject), by FullName.
product_doc_file == "product"
output_file == "output"

\* WordHandler.open_doc: the document already open under the path, or a new one
open_doc(docs, path) ==
    LET open == {d \in 1..Len(docs) : docs[d].open /\ docs[d].full_name = path}
    IN  IF open # {}
        THEN [docs |-> docs, doc |-> CHOOSE d \in open : \A g \in open : d <= g]
        ELSE [docs |-> Append(docs, [full_name |-> path, open |-> TRUE]),
              doc |-> Len(docs) + 1]

InitGui ==
    /\ mode = "gui"
    /\ pc = "gui"
    /\ btn_print = TRUE
    /\ clicks = 0
    /\ clicked = 0
    /\ finished_signal = 0
    /\ stack = <<>>
    /\ workers = <<>>
    /\ documents = <<>>
    /\ ctx = TagContext
    /\ tbl = <<>>
    /\ ExpanderIdle
    /\ LookupIdle
    /\ RunIdle
    /\ PgmIdle
    /\ ScanIdle

\* The user clicks on btn_print: a mouse event is posted to the GUI thread.
user_click ==
    /\ mode = "gui"
    /\ clicked < MaxClicks
    /\ clicks' = clicks + 1
    /\ clicked' = clicked + 1
    /\ UNCHANGED <<btn_print, finished_signal, stack, workers, documents>>
    /\ UNCHANGED <<mode, pc, ctx, tbl, expander_vars, lookup_vars, run_vars, pgm_vars, scan_vars>>

\* the GUI thread can dispatch an event: it is idle, or it is inside the
\* processEvents of a self.log of run_print_dambo
Dispatching == IF stack = <<>> THEN TRUE ELSE stack[Len(stack)] = "begin"

\* A pending click is dispatched: run_print_dambo is entered when the
\* button is enabled, the click is dropped when it is not.
dispatch_click ==
    /\ mode = "gui"
    /\ Dispatching
    /\ clicks > 0
    /\ clicks' = clicks - 1
    /\ stack' = IF btn_print THEN Append(stack, "begin") ELSE stack
    /\ UNCHANGED <<btn_print, clicked, finished_signal, workers, documents>>
    /\ UNCHANGED <<mode, pc, ctx, tbl, expander_vars, lookup_vars, run_vars, pgm_vars, scan_vars>>

\* _on_print_finished, the slot of worker.finished_signal
on_print_finished ==
    /\ mode = "gui"
    /\ Dispatching
    /\ finished_signal > 0
    /\ finished_signal' = finished_signal - 1
    /\ btn_print' = TRUE
    /\ UNCHANGED <<clicks, clicked, stack, workers, documents>>
    /\ UNCHANGED <<mode, pc, ctx, tbl, expander_vars, lookup_vars, run_vars, pgm_vars, scan_vars>>

\* run_print_dambo up to "self.worker = WorkerThread(run_task)": the paths
\* are valid, the last processEvents has returned.
run_print_dambo_load ==
    /\ mode = "gui"
    /\ stack # <<>> /\ stack[Len(stack)] = "begin"
    /\ stack' = [stack EXCEPT ![Len(stack)] = "loaded"]
    /\ UNCHANGED <<btn_print, clicks, clicked, finished_signal, workers, documents>>
    /\ UNCHANGED <<mode, pc, ctx, tbl, expander_vars, lookup_vars, run_vars, pgm_vars, scan_vars>>

\* run_print_dambo from there: the worker is created and started, then
\* the buttons are disabled, and the slot returns.
run_print_dambo_start ==
    /\ mode = "gui"
    /\ stack # <<>> /\ stack[Len(stack)] = "loaded"
    /\ workers' = Append(workers, [phase |-> "start", i |-> 0, doc |-> 0])
    /\ btn_print' = FALSE
    /\ stack' = SubSeq(stack, 1, Len(stack) - 1)
    /\ UNCHANGED <<clicks, clicked, finished_signal, documents>>
    /\ UNCHANGED <<mode, pc, ctx, tbl, expander_vars, lookup_vars, run_vars, pgm_vars, scan_vars>>

\* execute of worker w, up to the main loop: the target document is opened
worker_open(w) ==
    /\ mode = "gui"
    /\ workers[w].phase = "start"
    /\ LET r == open_doc(documents, product_doc_file)
       IN  /\ documents' = r.docs
           /\ workers' = [workers EXCEPT ![w] = [phase |-> "loop", i |-> 0, doc |-> r.doc]]
    /\ UNCHANGED <<btn_print, clicks, clicked, finished_signal, stack>>
    /\ UNCHANGED <<mode, pc, ctx, tbl, expander_vars, lookup_vars, run_vars, pgm_vars, scan_vars>>

\* one pass of the main loop of worker w: coverage i of its worklist
worker_iteration(w) ==
    /\ mode = "gui"
    /\ workers[w].phase = "loop"
    /\ workers[w].i < MaxCoverages
    /\ workers' = [workers EXCEPT ![w].i = @ + 1]
    /\ UNCHANGED <<btn_print, clicks, clicked, finished_signal, stack, documents>>
    /\ UNCHANGED <<mode, pc, ctx, tbl, expander_vars, lookup_vars, run_vars, pgm_vars, scan_vars>>

\* the end of execute of worker w: SaveAs2(output_file), close_all (every
\* document of the application is closed), then finished_signal is emitted
worker_finish(w) ==
    /\ mode = "gui"
    /\ workers[w].phase = "loop"
    /\ workers[w].i = MaxCoverages
    /\ workers' = [workers EXCEPT ![w].phase = "done"]
    /\ documents' = [d \in 1..Len(documents) |->
                        [full_name |-> IF d = workers[w].doc THEN output_file
                                       ELSE documents[d].full_name,
                         open |-> FALSE]]
    /\ finished_signal' = finished_signal + 1
    /\ UNCHANGED <<btn_print, clicks, clicked, stack>>
    /\ UNCHANGED <<mode, pc, ctx, tbl, expander_vars, lookup_vars, run_vars, pgm_vars, scan_vars>>

NextGui ==
    \/ user_click
    \/ dispatch_click
    \/ on_print_finished
    \/ run_print_dambo_load
    \/ run_print_dambo_start
    \/ \E w \in 1..Len(workers) : worker_open(w)
    \/ \E w \in 1..Len(workers) : worker_iteration(w)
    \/ \E w \in 1..Len(workers) : worker_finish(w)

SpecGui == InitGui /\ [][NextGui]_vars

\* ============================================================ properties
Range(f) == {f[i] : i \in DOMAIN f}

\* A well-formed pair: same NAME and N, K = 1 then 2, or K = 3 then 4.
WellFormed(g1, g2) ==
    /\ g1.t = "oc" /\ g2.t = "oc" /\ g1.f = "w" /\ g2.f = "w"
    /\ g1.name = g2.name /\ g1.n = g2.n
    /\ (g1.k = 1 /\ g2.k = 2) \/ (g1.k = 3 /\ g2.k = 4)

IsOpening(g) == g.t = "oc" /\ g.f = "w" /\ g.k \in {1, 3}
IsClosing(g) == g.t = "oc" /\ g.f = "w" /\ g.k \in {2, 4}

\* The predicate NAME of a marker in a context.
Predicate(g, c) ==
    get_attribute_value((CHOOSE p \in Range(output_control_patterns) : p.name = g.name).attr,
                        g.n, c)

FirstClosing(t) == CHOOSE j \in 1..Len(t) : IsClosing(t[j]) /\ \A i \in 1..(j - 1) : ~IsClosing(t[i])
LastOpeningBefore(t, j) ==
    CHOOSE i \in 1..(j - 1) : IsOpening(t[i]) /\ \A h \in (i + 1)..(j - 1) : ~IsOpening(t[h])

\* A text of plain characters and whole markers in which every marker
\* belongs to one well-formed pair, pairs nested or side by side.
RECURSIVE Balanced(_)
Balanced(t) ==
    /\ \A i \in 1..Len(t) : IsChar(t[i]) \/ IsOpening(t[i]) \/ IsClosing(t[i])
    /\ IF \A i \in 1..Len(t) : ~IsClosing(t[i])
       THEN \A i \in 1..Len(t) : ~IsOpening(t[i])
       ELSE LET j == FirstClosing(t)
            IN  /\ \E i \in 1..(j - 1) : IsOpening(t[i])
                /\ WellFormed(t[LastOpeningBefore(t, j)], t[j])
                /\ Balanced(DeleteTagsOnly(t, LastOpeningBefore(t, j), j))

\* What the rule of the pairs leaves of a balanced text.
RECURSIVE ResolvePairs(_, _)
ResolvePairs(t, c) ==
    IF \A i \in 1..Len(t) : ~IsClosing(t[i]) THEN t
    ELSE LET j == FirstClosing(t)
             i == LastOpeningBefore(t, j)
             keep == IF t[i].k = 1 THEN Predicate(t[i], c) ELSE ~Predicate(t[i], c)
         IN  ResolvePairs(IF keep THEN DeleteTagsOnly(t, i, j)
                          ELSE DeleteTagsAndContent(t, i, j), c)

\* C1: every well-formed pair is resolved by its rule (K in {1,2}: predicate
\* true removes the two markers only, false removes markers and content; K in
\* {3,4} the other way round), however many pairs there are, by
\* process_all_tags and by process_range: a balanced text comes out as the
\* rule leaves it.
C1_PairsResolvedByRule ==
    (pc = "done" /\ round = 1 /\ Balanced(input)) => Result = ResolvePairs(input, ctx)

\* A text in which no two markers form a well-formed pair.
NoWellFormedPair(t) ==
    ~ \E i, j \in 1..Len(t) : i < j /\ WellFormed(t[i], t[j])

\* C2: Pass 1 of process_all_tags pairs two markers only when they have the
\* same NAME and N, complementary K and the opening one first; a marker
\* without such a partner is left unchanged by Pass 1.
C2_UnpartneredMarkersStay ==
    (mode = "str" /\ pc = "sub" /\ round = 1 /\ NoWellFormedPair(input)) => text = input

\* A literal of the tag grammar of the three families.
IsGrammarTag(g) == g.t \in {"oc", "sub", "g2", "gigan", "jigeup"}

\* C3: after a full expansion no literal of the tag grammar is left in the
\* result, unpaired markers and tags without a reference row included.
C3_NoTagRemains ==
    (pc = "done" /\ round = 1) => \A g \in TagsOf(Result) : ~IsGrammarTag(g)

RECURSIVE IsSubseq(_, _)
IsSubseq(a, b) ==
    IF a = <<>> THEN TRUE
    ELSE IF b = <<>> THEN FALSE
    ELSE IF Head(a) = Head(b) THEN IsSubseq(Tail(a), Tail(b))
    ELSE IsSubseq(a, Tail(b))

\* The length of what a rate tag's literal takes in after the closing brace,
\* from position j: "*x" or "/x" with x a number, and "%".
RateTailLen(t, j) ==
    LET d == DigitRun(t, j + 1)
        frac == IF IsCh(t, j + 1 + d, ".") THEN 1 + DigitRun(t, j + 2 + d) ELSE 0
        arith == IF (IsCh(t, j, "*") \/ IsCh(t, j, "/")) /\ d > 0 THEN 1 + d + frac ELSE 0
    IN  arith + (IF IsCh(t, j + arith, "%") THEN 1 ELSE 0)

\* The characters of a text that belong to no tag literal, in order.
RECURSIVE PlainChars(_, _)
PlainChars(t, j) ==
    IF j > Len(t) THEN <<>>
    ELSE IF t[j].t = "jigeup" /\ t[j].f = "w" THEN PlainChars(t, j + 1 + RateTailLen(t, j + 1))
    ELSE IF IsChar(t[j]) THEN <<t[j]>> \o PlainChars(t, j + 1)
    ELSE PlainChars(t, j + 1)

\* C4: expansion changes recognized tags only: in a text without
\* output-control markers every character outside a tag literal is in the
\* result, unchanged and in its order.
C4_PlainTextKept ==
    (pc = "done" /\ round = 1 /\ \A i \in 1..Len(input) : input[i].t # "oc" /\ input[i].f = "w")
        => IsSubseq(PlainChars(input, 1), Result)

\* C5: expanding the result of an expansion again, with the same context
\* and table, changes nothing.
C5_SecondExpansionIsNoOp ==
    (pc = "done" /\ round = 2) => Result = out1

PassRank(p) ==
    CASE p = "output_control" -> 1
      [] p = "substitution" -> 2
      [] p = "computed" -> 3
      [] p = "cleanup" -> 4

\* C6: the passes of an expansion run in the order output control,
\* substitution, computed values, and the cleanup of unresolved markers runs
\* last, in process_all_tags and in process_range.
C6_PassOrderCleanupLast ==
    (pc = "done" /\ round = 1 /\ HasBrace(input))
        => /\ \A i, j \in 1..Len(passes) : i < j => PassRank(passes[i]) <= PassRank(passes[j])
           /\ passes[Len(passes)] = "cleanup"

\* The first row of the table for a literal and an attribute family.
RowsFor(rows, lit, fam) ==
    {j \in 1..Len(rows) : rows[j].kodeumyeong = lit /\ rows[j].sokseong = fam}
FirstRowFor(rows, lit, fam) ==
    CHOOSE j \in RowsFor(rows, lit, fam) : \A h \in RowsFor(rows, lit, fam) : j <= h

\* The row a typed query for the literal and family resolves to: the first
\* one, when its application type is the requested one.
TypedFirst(rows, lit, fam, typ) ==
    /\ RowsFor(rows, lit, fam) # {}
    /\ rows[FirstRowFor(rows, lit, fam)].jeogyong = typ

\* C7: a numbered substitution tag {NAME N} takes the phrase of the row of
\* the numbered literal when there is one, even if the bare literal {NAME}
\* has a row too; it takes the phrase of the bare literal's row when only
\* that one exists.
C7_NumberedThenBare ==
    \A g \in {Sub("danche", 1), Sub("yeonjang", 1)} :
        (mode = "rng" /\ pc = "done" /\ round = 1 /\ input = <<g>>)
            => LET flag == IF g.name = "danche" THEN ctx.danche ELSE ctx.yeonjang
                   typ == Jeogyong(flag)
                   bare == Sub(g.name, NoN)
               IN  /\ TypedFirst(tbl, g, g.name, typ)
                          => Result = tbl[FirstRowFor(tbl, g, g.name)].mungu
                   /\ ((\A j \in 1..Len(tbl) : tbl[j].kodeumyeong # g)
                         /\ TypedFirst(tbl, bare, g.name, typ))
                          => Result = tbl[FirstRowFor(tbl, bare, g.name)].mungu

\* A row answers a query: the literal, the family and the application type
\* agree (a blank type answers every type).
RowMatches(row, qq) ==
    /\ row.kodeumyeong = qq.kodeumyeong
    /\ qq.sokseong = None \/ row.sokseong = qq.sokseong
    /\ row.jeogyong = "" \/ qq.jeogyong = None \/ row.jeogyong = qq.jeogyong

\* C8: find_참조문구 and _lookup_참조 tell "no row matches" from "a row
\* matches and resolves to the empty string": with no matching row the
\* result is not the empty string.
C8_NotFoundIsNotEmpty ==
    (mode = "lookup" /\ pc \in {"find", "lookup"} /\ \A j \in 1..Len(tbl) : ~RowMatches(tbl[j], q))
        => res # <<>>

\* The first row for the literal and family has a blank application type.
BlankFirst(rows, lit, fam) == TypedFirst(rows, lit, fam, "")

\* C9: when the row for a tag literal and attribute family has a blank
\* application type, the lookup returns the empty string for requested type
\* 0 and for requested type 1, and _replace_단체 deletes {단체1} whatever the
\* 단체 flag is.
C9_BlankTypeDeletes ==
    /\ (mode = "lookup" /\ pc \in {"find", "lookup"} /\ q.sokseong # None
          /\ q.jeogyong \in {"0", "1"} /\ BlankFirst(tbl, q.kodeumyeong, q.sokseong))
         => res = <<>>
    /\ (mode = "lookup" /\ pc = "danche" /\ BlankFirst(tbl, Sub("danche", 1), "danche"))
         => res = <<>>

\* _replace_단체 ran with the flag set on a table whose blank row for {단체1}
\* carries a phrase and is followed by a row of the requested type.
C9_Witness ==
    /\ mode = "lookup" /\ pc = "danche" /\ ctx.danche = 1
    /\ q.kodeumyeong = Sub("danche", 1)
    /\ Len(tbl) = 2
    /\ tbl[1] = [kodeumyeong |-> Sub("danche", 1), sokseong |-> "danche", jeogyong |-> "",
                 mungu |-> <<P>>]
    /\ tbl[2] = [kodeumyeong |-> Sub("danche", 1), sokseong |-> "danche", jeogyong |-> "1",
                 mungu |-> <<P>>]
    /\ res = <<>>

\* How many times a label stands in the target document.
Count(seq, x) == Cardinality({j \in 1..Len(seq) : seq[j] = x})
\* The number of times the content of label x was pasted into the target.
Inserted(x) ==
    Cardinality({i \in 0..(MaxCoverages - 1) :
                    \E k \in 1..Len(target_doc) :
                        target_doc[k].kind = "pasted" /\ target_doc[k].of = x
                            /\ target_doc[k].by = i})
HasSection(c) == \E i \in 1..Len(target_comment_objects) : target_comment_objects[i] = c

\* C10: over a run of execute the content of a rider label (특별약관명) is
\* inserted into the target document at most once, whatever coverages of
\* the worklist resolve to that label.
C10_LabelInsertedAtMostOnce ==
    mode = "run" => \A x \in Labels : Inserted(x) <= 1

\* The run is over, two coverages of the worklist resolved to one label with
\* content and a section to go to, and the label was inserted.
C10_Witness ==
    /\ mode = "run" /\ pc = "saved"
    /\ \E j, h \in 1..Len(coverage_list) :
          /\ j < h
          /\ coverage_list[j].daepyo # coverage_list[h].daepyo
          /\ LET a == source_info(source_doc, coverage_list[j])
                 b == source_info(source_doc, coverage_list[h])
             IN  /\ a # <<>> /\ b # <<>>
                 /\ a[1].teukyak_myeong = b[1].teukyak_myeong
                 /\ a[1].copy_start < a[1].copy_end
                 /\ b[1].copy_start < b[1].copy_end
                 /\ HasSection(coverage_list[j].category)
                 /\ HasSection(coverage_list[h].category)
                 /\ Inserted(a[1].teukyak_myeong) = 1

\* The label a coverage resolves to in the source document, with content
\* to copy, and the first coverage of the worklist that resolves to it.
Resolves(j, x) ==
    LET a == source_info(source_doc, coverage_list[j])
    IN  a # <<>> /\ a[1].teukyak_myeong = x
HasContent(j) ==
    LET a == source_info(source_doc, coverage_list[j])
    IN  a # <<>> /\ a[1].copy_start < a[1].copy_end
FirstFor(j, x) == Resolves(j, x) /\ \A g \in 1..(j - 1) : ~Resolves(g, x)

\* C11: when two coverages of the worklist resolve to the same rider label
\* (the first one with content and a section to go to), the content is
\* inserted exactly once and _revise_terms still runs for the second
\* coverage.
C11_SecondCoverageStillRevised ==
    (mode = "run" /\ pc = "saved") =>
        \A x \in Labels : \A j, h \in 1..Len(coverage_list) :
            (/\ j < h
             /\ FirstFor(j, x) /\ HasContent(j)
             /\ HasSection(coverage_list[j].category)
             /\ Resolves(h, x) /\ HasContent(h)
             /\ HasSection(coverage_list[h].category))
            => (Inserted(x) = 1 /\ (h - 1) \in revised)

\* The paragraphs pass i of the loop pasted, and the paragraphs a range
\* [start, end) overlaps.
PastedBy(i) ==
    {k \in 1..Len(target_doc) : target_doc[k].kind = "pasted" /\ target_doc[k].by = i}
ParasIn(r) ==
    {k \in 1..Len(target_doc) :
        Pos(target_doc, k) < r.end /\ Pos(target_doc, k + 1) > r.start}

\* C12: the range handed to process_range for a coverage is the span just
\* inserted for it: it starts where the pasted content starts, it reaches
\* the end of the pasted content, and it holds no paragraph of a section,
\* of a heading or of another coverage's content (a bare paragraph mark
\* after the content is let pass), also when the content is short or the
\* range end is recalculated.
C12_RangeIsInsertedSpan ==
    (mode = "run" /\ target_range # <<>>) =>
        LET ks == PastedBy(loop_i - 1)
            r == target_range[1]
        IN  /\ ks # {}
            /\ \E k \in ks : r.start = Pos(target_doc, k) /\ \A g \in ks : k <= g
            /\ \A k \in ks : Pos(target_doc, k + 1) <= r.end
            /\ \A k \in ParasIn(r) : k \in ks \/ target_doc[k].kind = "blank"

\* A coverage code without an anchor row in the PGM main table.
NoAnchor(dambo_code) == pgm_main_index_col1(dambo_code) = <<>>

\* C13: the context used to expand the content of a coverage whose code has
\* no anchor row has 면책 0, 감액 0, 감액두번 false, no reduction-period list
\* and no payout rates, wherever the coverage stands in the worklist.
C13_NoAnchorDefaultContext ==
    (mode = "run" /\ (loop_i - 1) \in revised
        /\ NoAnchor(coverage_list[loop_i].dambo_code)) =>
        /\ ctx.myeonchaek = 0
        /\ ctx.gamaek = 0
        /\ ~ctx.gamaek_dubeon
        /\ ctx.gamaek_gigan_list = <<>>
        /\ \A x \in DOMAIN ctx.jigeupryul_data : ctx.jigeupryul_data[x] = <<>>

\* C14: the context used to expand the content of a coverage is the one its
\* own row and the PGM tables give, that is, the context it gets as the
\* first coverage of a run: whatever was resolved before it, the flags, the
\* period lists and the payout rates are the same.
C14_ContextFromOwnCoverage ==
    (mode = "run" /\ (loop_i - 1) \in revised) =>
        ctx = revise_context(read_pgm_loop(InitPrintDambo, coverage_list[loop_i].dambo_code),
                             coverage_list[loop_i])

\* C15: a run of execute ends only after the last coverage of the worklist:
\* no failure while handling one coverage ends the loop before the
\* coverages after it were visited.
C15_LoopVisitsEveryCoverage ==
    (mode = "run" /\ pc \in {"saved", "aborted"}) =>
        (pc = "saved" /\ loop_i = Len(coverage_list))

\* The category of the section that holds paragraph k: the nearest heading
\* at or before it ("" before the first heading).
SectionOf(k) ==
    LET hs == {h \in 1..k : target_doc[h].kind = "heading"}
    IN  IF hs = {} THEN ""
        ELSE target_doc[CHOOSE h \in hs : \A g \in hs : g <= h].of

\* C16: every pasted paragraph lies in the section of its coverage's
\* category, at the end of it: between it and the next heading (or the end
\* of the document) there is only pasted content and bare paragraph marks.
C16_InsertedAtSectionEnd ==
    mode = "run" =>
        \A k \in 1..Len(target_doc) :
            target_doc[k].kind = "pasted" =>
                /\ SectionOf(k) = coverage_list[target_doc[k].by + 1].category
                /\ \A j \in (k + 1)..Len(target_doc) :
                       (\A h \in (k + 1)..j : target_doc[h].kind # "heading")
                           => target_doc[j].kind \in {"pasted", "blank"}

\* C17: at any time at most one generation run works on a target document:
\* no two workers are in the main loop of execute on the same document.
C17_OneRunPerTarget ==
    mode = "gui" =>
        \A w1, w2 \in 1..Len(workers) :
            (w1 # w2 /\ workers[w1].phase = "loop" /\ workers[w2].phase = "loop")
                => workers[w1].doc # workers[w2].doc

\* The string the formatting rule gives for d days: days below 30, months
\* from 30 to 364 when divisible by 30, years from 365 when divisible by
\* 365, days otherwise.
RuleFormat(d) ==
    IF d < 30 THEN Digits(d) \o <<Ch("il")>>
    ELSE IF d <= 364
    THEN IF d % 30 = 0 THEN Digits(d \div 30) \o <<Ch("gaewol")>>
         ELSE Digits(d) \o <<Ch("il")>>
    ELSE IF d % 365 = 0 THEN Digits(d \div 365) \o <<Ch("nyeon")>>
         ELSE Digits(d) \o <<Ch("il")>>

\* C19, as claimed: _format_기간 maps every non-negative number of days to
\* the string of the rule.
C19_FormatEveryDay ==
    (mode = "format" /\ pc = "done") => res = RuleFormat(q)

\* C19, amended: _format_기간 maps every positive number of days to the
\* string of the rule, and 0 days to the empty string.
C19_FormatPositiveDays ==
    (mode = "format" /\ pc = "done") =>
        res = IF q = 0 THEN <<>> ELSE RuleFormat(q)

\* 730 days were formatted as two years.
C19_Witness ==
    mode = "format" /\ pc = "done" /\ q = 730 /\ res = <<Ch("2"), Ch("nyeon")>>

\* The first coverage has the reduction days 180 and 365, in any order.
Days180And365 ==
    IF Len(ctx.gamaek_gigan_list) >= 1
    THEN SortInts(ctx.gamaek_gigan_list[1]) = <<180, 365>>
    ELSE FALSE

\* C20, as claimed: with the reduction days 180 and 365 the tag {감액기간1-1}
\* expands to "180일" and the tag {감액기간1-2} to "1년".
C20_Days180AsDays ==
    (mode \in {"str", "rng"} /\ pc = "done" /\ round = 1 /\ Days180And365) =>
        /\ input = <<Gigan(1, 1)>> => Result = <<Ch("1"), Ch("8"), Ch("0"), Ch("il")>>
        /\ input = <<Gigan(1, 2)>> => Result = <<Ch("1"), Ch("nyeon")>>

\* C20, amended: with the reduction days 180 and 365 the tag {감액기간1-1}
\* expands to "6개월" and the tag {감액기간1-2} to "1년".
C20_Days180AsMonths ==
    (mode \in {"str", "rng"} /\ pc = "done" /\ round = 1 /\ Days180And365) =>
        /\ input = <<Gigan(1, 1)>> => Result = <<Ch("6"), Ch("gaewol")>>
        /\ input = <<Gigan(1, 2)>> => Result = <<Ch("1"), Ch("nyeon")>>

\* {감액기간1-1} alone was expanded with the days 180 and 365, to "6개월".
C20_Witness ==
    /\ mode \in {"str", "rng"} /\ pc = "done" /\ round = 1 /\ Days180And365
    /\ input = <<Gigan(1, 1)>>
    /\ Result = <<Ch("6"), Ch("gaewol")>>

\* The text {감액기간N-K} stands for by the rule: the formatted K-th smallest
\* period of the N-th list, "NA" for an N or a K that names no entry.
GiganByRule(tag, c) ==
    IF tag.n >= 1 /\ tag.n <= Len(c.gamaek_gigan_list)
    THEN LET sorted_list == SortInts(c.gamaek_gigan_list[tag.n])
         IN  IF tag.k >= 1 /\ tag.k <= Len(sorted_list)
             THEN format_gigan(sorted_list[tag.k])
             ELSE <<Ch("NA")>>
    ELSE <<Ch("NA")>>

\* C18: a text that is one tag {감액기간N-K} becomes the formatted K-th
\* smallest period of the N-th list when both indexes name an entry and the
\* literal "NA" otherwise, in process_all_tags and in process_range.
C18_GiganOrNA ==
    (mode \in {"str", "rng"} /\ pc = "done" /\ round = 1
        /\ Len(input) = 1 /\ input[1].t = "gigan")
            => Result = GiganByRule(input[1], ctx)

\* The K-th smallest value of the stored 지급률 list of the context.
KthSmallestRate(k) == SortRats(ctx.jigeupryul_data["D1"][1])[k]

\* s prints v: without a decimal point when v is integral, else with one
\* decimal place, the nearest tenth (either neighbour on a tie).
PrintsRate(s, v) ==
    IF v.num % v.den = 0 THEN s = Digits(v.num \div v.den)
    ELSE \E tenths \in {(10 * v.num) \div v.den, (10 * v.num) \div v.den + 1} :
            /\ 2 * (10 * v.num - tenths * v.den) <= v.den
            /\ 2 * (tenths * v.den - 10 * v.num) <= v.den
            /\ s = Digits(tenths \div 10) \o <<Ch(".")>> \o Digits(tenths % 10)

C21_WitnessDecimal ==
    /\ mode = "rate" /\ pc = "done"
    /\ input = <<Jigeup(1, 1, 1), Ch("/"), Ch("3")>>
    /\ text = <<Ch("1"), Ch("6"), Ch("."), Ch("7")>>

\* C22: a text that is one tag {세부보장N} becomes the N-th entry of the
\* 세부보장명 list in corner brackets when 1 <= N <= length of the list, and
\* the empty string for every other N; the expansion does not raise.
C22_SebuOrEmpty ==
    (mode \in {"str", "rng"} /\ pc \in {"done", "raised"} /\ round = 1
        /\ Len(input) = 1 /\ input[1].t = "sub" /\ input[1].name = "sebu")
            => /\ pc = "done"
               /\ Result = IF input[1].n >= 1 /\ input[1].n <= Len(ctx.sebu_list)
                           THEN <<Ch("[")>> \o ctx.sebu_list[input[1].n] \o <<Ch("]")>>
                           ELSE <<>>

\* The sub-coverage codes in ascending order.
CodeRank(c) == IF c = "c1" THEN 1 ELSE IF c = "c2" THEN 2 ELSE 3
CodeOfRank(k) == IF k = 1 THEN "c1" ELSE IF k = 2 THEN "c2" ELSE "c3"
CodesAscending(codes) ==
    LET ranks == SortInts([j \in 1..Len(codes) |-> CodeRank(codes[j])])
    IN  [j \in 1..Len(codes) |-> CodeOfRank(ranks[j])]

\* name is what the mapping table gives for the code: a display name of a
\* row of the code, or the bare code when no row of it has a name.
IsDisplayName(name, code) ==
    LET named == {r \in 1..Len(arr_mapping) :
                     arr_mapping[r].code = code /\ arr_mapping[r].name # ""}
    IN  IF named = {} THEN name = code
        ELSE \E r \in named : name = arr_mapping[r].name

\* C23: after _read_pgm_loop the display-name list has one entry per
\* sub-coverage code of the run, in ascending order of the codes, each the
\* mapping table's name for its code or the bare code.
C23_NamesByCodeAscending ==
    (mode = "pgm" /\ pc = "done") =>
        LET codes == CodesAscending(pgm_self.sebu_code_list)
        IN  /\ Len(sebubojangmyeong_list) = Len(codes)
            /\ \A j \in 1..Len(codes) : IsDisplayName(sebubojangmyeong_list[j], codes[j])

\* The rows of the run by the rule: of the rows that carry the key, in
\* storage order, those before the first one whose 세부담보순번 is not
\* greater than that of the row before it.
RECURSIVE RunByRule(_, _)
RunByRule(rows, taken) ==
    IF rows = <<>> THEN taken
    ELSE IF taken # <<>> /\ arr_gujo[Head(rows)].sunbeon <= arr_gujo[taken[Len(taken)]].sunbeon
    THEN taken
    ELSE RunByRule(Tail(rows), Append(taken, Head(rows)))

RunRows == RunByRule(gujo_index(arr_gujo, "k1"), <<>>)

\* C25: the run of a coverage is made of the rows that carry its key,
\* wherever they are stored, up to the first row whose ordinal does not
\* exceed the ordinal of the row before it; the rows from there on give no
\* sub-coverage.
C25_RunEndsWhereOrdinalStopsRising ==
    (mode = "pgm" /\ pc = "done") =>
        pgm_self.sebu_code_list = [j \in 1..Len(RunRows) |-> arr_gujo[RunRows[j]].code]

\* The rows _read_pgm_loop took into the run, in storage order.
ScannedRows == SubSeq(gujo_index(arr_gujo, "k1"), 1, Len(pgm_self.sebu_code_list))

\* The flags the rule gives when the sub-coverages are the rows `rows` of
\* arr_보장구조, each with the 보장배수 row its own 보장배수 key names.
FlagsByRule(rows) ==
    LET b(j) == arr_bojang_baesu(arr_gujo[rows[j]].baesu)
    IN  [myeonchaek |-> \E j \in 1..Len(rows) : b(j).myeonchaek_gigan > 0,
         gamaek |-> \E j \in 1..Len(rows) : b(j).gamaek_gigan > 0,
         gamaek_dubeon |-> \E j \in 1..Len(rows) :
                              b(j).gamaek_gigan2 > 0 /\ b(j).gamaek_biyul2 > 0]

\* The flags _revise_terms takes from the object.
FlagsOfObject ==
    [myeonchaek |-> pgm_self.sum_myeonchaek > 0,
     gamaek |-> pgm_self.sum_gamaek > 0,
     gamaek_dubeon |-> pgm_self.is_gamaek_dubeon]

\* C26: the flags 면책, 감액 and 감액두번 of a coverage are those of the
\* rule over the sub-coverages of its run, each with the 보장배수 row of its
\* own structure row; the sub-coverages are the rows of the run, with or
\* without its first row.  (The periods are not negative, so a sum is > 0
\* exactly when one of its terms is.)
C26_FlagsFromOwnRows ==
    (mode = "pgm" /\ pc = "done" /\ ScannedRows # <<>>) =>
        \/ FlagsOfObject = FlagsByRule(ScannedRows)
        \/ FlagsOfObject = FlagsByRule(Tail(ScannedRows))

\* The rows of the table whose code equals the query, and those that share
\* its last 7 characters.
ExactRows == {r \in 1..Len(tbl) : tbl[r] = q}
SuffixRows == {r \in 1..Len(tbl) : Len(tbl[r]) >= 7 /\ Len(q) >= 7 /\ Suffix7(tbl[r]) = Suffix7(q)}

\* C24: find_대표담보코드 returns a row whose code equals the query whenever
\* the table has one, wherever it stands; a row that matches on the last 7
\* characters only when the table has no equal row; the empty result when
\* it has neither.
C24_ExactBeforeSuffix ==
    (mode = "find" /\ pc \in {"done", "done_260209"}) =>
        IF ExactRows # {} THEN res # <<>> /\ res[1] \in ExactRows
        ELSE IF SuffixRows # {} THEN res # <<>> /\ res[1] \in SuffixRows
        ELSE res = <<>>

\* The same for the lookup through the indexes alone.
C24_IndexedLookup ==
    (mode = "find" /\ pc = "done") =>
        IF ExactRows # {} THEN res # <<>> /\ res[1] \in ExactRows
        ELSE IF SuffixRows # {} THEN res # <<>> /\ res[1] \in SuffixRows
        ELSE res = <<>>

\* C27: every pass of the loop of _process_single_output_tag either
\* shortens the text and restarts the scan at 0, or leaves the text and
\* moves the scan index one match on, within the matches; and the function
\* returns, with the result of the whole function.
C27_ScanTerminates ==
    /\ [][(mode = "scan" /\ iterations' # iterations) =>
            \/ Len(text') < Len(text) /\ scan_i' = 0
            \/ /\ text' = text
               /\ scan_i' = scan_i + 1
               /\ scan_i' <= Len(scan_matches(text, ScanPattern)) - 1]_vars
    /\ <>(mode = "scan" => pc = "done")
    /\ [](mode = "scan" /\ pc = "done" =>
            text = process_single_output_tag(input, ScanPattern, ctx))

\* The function returned after a deletion that joined two halves into a
\* new marker.
C27_Witness ==
    /\ mode = "scan" /\ pc = "done"
    /\ input = <<LeftOf(CutTag), OC("myeonchaek", 0, 1), OC("myeonchaek", 0, 2),
                 RightOf(CutTag)>>
    /\ iterations = 1
    /\ text = <<LeftOf(CutTag), RightOf(CutTag)>>

\* C28: a rider label is in copied_list_strings only if content of that
\* label stands in the target document.
C28_CopiedOnlyIfInserted ==
    mode = "run" => \A x \in copied_list_strings : Inserted(x) >= 1

\* ---------------------------------------------------------------- C29
\* process_all_tags(text, dambo_att) computed on the input of the state:
\* output control, substitution, computed tags, in that order.
process_all_tags(t, rows, c) ==
    LET r2 == process_substitution_tags(process_output_control_tags(t, c), rows, c)
    IN  IF r2.ok THEN process_pgm_tags(r2.text, c) ELSE r2

\* C29: for the same text, context and reference table, process_range leaves
\* in the range the text that process_all_tags returns for it.
C29_RangeEqualsString ==
    (mode = "rng" /\ pc = "done" /\ round = 1)
        => LET r == process_all_tags(input, tbl, ctx)
           IN  r.ok /\ Result = r.text

\* The two expanders agree on some text that holds a tag.
C29_Agree ==
    /\ mode = "rng" /\ pc = "done" /\ round = 1
    /\ \E i \in 1..Len(input) : input[i].f # "ch"
    /\ LET r == process_all_tags(input, tbl, ctx)
       IN  r.ok /\ Result = r.text

\* ---------------------------------------------------------------- C30
\* C30: process_all_tags returns a string on every input and context: no
\* handler of its passes lets an exception out of the call.
C30_NeverRaises == mode \in {"str", "rate"} => pc # "raised"
====
